---- MODULE Spec2Model ----
(***************************************************************************)
(* Model of the SEI voting monitor (gitcoin-v0ter-verifiooor).             *)
(*                                                                         *)
(* The repository holds two implementations of the vote/wallet ledger:     *)
(*   - walletBalances.js: recordVote / checkFinalBalances, which load the  *)
(*     two JSON tables from disk, change them and write them back;         *)
(*   - batchProcessor.js (src/unnamed/part_000): class BatchProcessor,     *)
(*     which keeps the two tables in memory.                               *)
(* The variable impl says which of the two is in use; votes and wallets    *)
(* are its two tables.                                                     *)
(*                                                                         *)
(* Amounts are integers in units of 10^-7 SEI (one digit more than the     *)
(* 6 fraction digits the program keeps), so that canonicalisation to 6     *)
(* digits is a real rounding and not the identity.                         *)
(***************************************************************************)
EXTENDS Integers, Sequences, FiniteSets, TLC

VARIABLES
    \* ---- ledger (walletBalances.js / BatchProcessor)
    impl,        \* "walletBalances" or "batchProcessor"
    votes,       \* vote table: txHash -> vote record
    wallets,     \* wallet table: lower-case evm address -> wallet record
    cfPc,        \* checkFinalBalances: "idle" or "running"
    cfVotes,     \* walletBalances.checkFinalBalances: its loaded copy of the vote table
    cfWallets,   \* walletBalances.checkFinalBalances: its loaded copy of the wallet table
    cfTodo,      \* checkFinalBalances: wallets the loop has not visited yet
    ptEx,        \* history: votes recorded from a lookup in which every source failed
    finEx,       \* history: wallets whose last period-end lookup failed in every source
    finExVotes,  \* history: the votes of those wallets at that pass
    cfEx,        \* history of the running pass (walletBalances): [w |-> votes of w]
    lastOp,      \* history: the last ledger operation and its arguments
    \* ---- vote detection (blockScanner.js, realTimeMonitor.js, scripts/test.js)
    dWho,        \* who examined the transaction: "processBlockRange", "monitor", "checkBlockForVotes"
    dTx,         \* the transaction it was given, with its receipt
    dEmitted,    \* whether it emitted the transaction as a vote
    \* ---- the tracker (index.js), the range scan and the live monitor
    checkpoint,     \* content of data/last_processed_block.txt; 0 when there is no file
    head,           \* height of the chain
    pc,             \* trackVotingActivity: "stopped", "scanning", "ingesting", "monitoring"
    currentBlock,   \* currentBlock of trackVotingActivity, then of the monitor
    scan,           \* scanBlockRangeForVotes: its range and locals
    events,         \* trackVotingActivity: events, the votes the scan returned
    evI,            \* trackVotingActivity: i of the loop over events
    evDone,         \* processBatchOfVotes: votes of the batch already handled
    pendingVotes,   \* index.js pendingVotes
    processing,     \* votes taken by the running processingPromise
    checkpointDue,  \* now - lastCheckpointTime > SAVE_CHECKPOINT_INTERVAL_MS
    progressDue,    \* now - lastProgressSave > 30000
    failed,         \* history: a batch of a scan or the handling of a vote has failed
    coveredOnce,    \* history: votes in the range of a completed scan-and-ingest pass, no failure so far
    coveredTwice,   \* history: votes in the ranges of two such passes
    \* ---- one call of scanBlockRangeForVotes with its concurrent batches
    scanRun,        \* its arguments, locals and the batches in flight
    \* ---- findStartBlock.js
    locator,        \* one call of findStartBlock: the chain, the target, its locals
    \* ---- cache.js with walletBalances.js: balance resolution through the caches
    resolver,       \* the upstream services, the caches, the vote being processed, and
                    \* as history the same run on caches that never lose an entry
    \* ---- index.js: the processes started on one data directory
    lockFile,       \* data/monitor.lock exists
    instance,       \* per process: where it is in schedulePeriodicChecks
    \* ---- index.js generateFinalReport
    report,         \* the chain after the period end, the wallet, the pass and its result
    \* ---- recordVote / saveData: the two file writes
    saving,         \* the write in progress: its position and the tables it writes
    \* ---- utils.js retry with the calls that have a primary and a fallback endpoint
    gateway,        \* one call: the operation, its position, its attempts and contacts
    \* ---- cache.js class Cache
    store,          \* one Cache: its timestamps Map, the clock, the last operation
    \* ---- blockScanner.js: a scan whose fetches can fail
    sweep,          \* one call of scanBlockRangeForVotes: the failing fetches, the batches, the votes
    \* ---- realTimeMonitor.js monitorForVotes
    live,           \* one monitor: its flags, connection, timers and the handlers in flight
    \* ---- utils.js formatSeiBalance applied twice
    canon,          \* an amount, its canonical form, the canonical form of that
    \* ---- index.js schedulePeriodicChecks with its 12-hour timer
    periodic,       \* one process: its timer, its lock, the checkpoint, the checks made
    \* ---- index.js: the end of the voting period while the program runs
    finale,         \* one process: the clock, the monitor, the timer, the final report
    \* ---- index.js, BatchProcessor: the queue of votes waiting to be processed
    queue,          \* pendingVotes, processingPromise / processing, and the batches under way
    \* ---- walletBalances.js getSeiBalance: balanceCache and what the sources returned
    balanceCache,   \* entries of balanceCache by key, and the history of the lookups
    \* ---- BatchProcessor: the tables in memory, the pending changes and the two files
    processor       \* votes, wallets, pendingVoteChanges, pendingWalletChanges, votesFile, walletsFile

ledgerVars == <<impl, votes, wallets, cfPc, cfVotes, cfWallets, cfTodo,
                ptEx, finEx, finExVotes, cfEx, lastOp>>

detectVars == <<dWho, dTx, dEmitted>>

trackVars == <<checkpoint, head, pc, currentBlock, scan, events, evI, evDone,
               pendingVotes, processing, checkpointDue, progressDue,
               failed, coveredOnce, coveredTwice>>

\* the state of the components modelled each on its own
moreVars == <<scanRun, locator, resolver, lockFile, instance, report, saving, gateway, store, sweep, live, canon, periodic, finale, queue, balanceCache, processor>>

notLedger == <<detectVars, trackVars, moreVars>>   \* what the ledger operations leave alone

\* the ledger state that only checkFinalBalances and the histories use
ledgerRest == <<impl, cfPc, cfVotes, cfWallets, cfTodo, ptEx, finEx, finExVotes, cfEx, lastOp>>

vars == <<ledgerVars, detectVars, trackVars, moreVars>>

-----------------------------------------------------------------------------
(* Bounds of the model *)

MaxTx == 2              \* transaction hashes 1..MaxTx
MaxInstances == 3       \* processes started on the same data directory
MaxDelay == 10          \* blocks produced after the period end before the final pass
MaxClock == 1           \* ticks of the clock of the cache
MaxLatest == 3          \* blocks the chain produces while the monitor lives
MaxChecks == 3          \* runs of schedulePeriodicChecks, and blocks produced meanwhile
MaxHead == 4             \* blocks produced around the end of the voting period
MaxVotes == 3            \* votes the monitor reports
MaxLimitKeys == 4        \* keys put into a cache whose size is limited

(* Program constants *)

MIN_SEI_REQUIRED == 100
USEI_TO_SEI == 1000000

-----------------------------------------------------------------------------
(* Values *)

T == "true"
F == "false"
Null == "null"
Bool3(b) == IF b THEN T ELSE F

NoBal == 0 - 1                        \* a balance that is null / not a number
Fail == 0 - 2                         \* a balance source that threw
NoCache == 0 - 3                      \* balanceCache.get returned null

SubUnit == 10 * USEI_TO_SEI         \* model units per SEI
MinUnits == MIN_SEI_REQUIRED * SubUnit

Tx == 1..MaxTx

(* The chain: the sender and the block of each transaction. *)
FromOf(tx) == IF tx <= 2 THEN "0xA1" ELSE "0xB2"
BlockOf(tx) == 50 * tx - 48

toLowerCase(a) == IF a = "0xA1" THEN "0xa1" ELSE IF a = "0xB2" THEN "0xb2" ELSE a

(* What the sources can answer, in model units. The Cosmos API answers whole
   usei; the EVM API answers wei, here amounts around the minimum. *)
CosmosAnswers == {Fail, 80 * USEI_TO_SEI}      \* usei: below the minimum
EvmAnswers == {Fail, MinUnits - 5}             \* model units: the minimum once rounded
BalanceInputs == {NoBal, MinUnits - 6, MinUnits - 5}
\* what getBalanceFunc gives BatchProcessor.checkFinalBalances: it threw (Fail);
\* every source failed and it answered 0, as getSeiBalance does; an amount
BpFinalAnswers == {Fail, 0, MinUnits - 5}

-----------------------------------------------------------------------------
(* utils.js *)

\* formatSeiBalance mutated: always the next multiple of 10^-6 above
formatSeiBalanceAbove(amount) == ((amount \div 10) + 1) * 10

\* Number(amount.toFixed(6)): round to 6 fraction digits, half up
formatSeiBalance(amount) == ((amount + 5) \div 10) * 10

\* Number((amount / USEI_TO_SEI).toFixed(6))
useiToSei(useiAmount) == formatSeiBalance(useiAmount * 10)

-----------------------------------------------------------------------------
(* walletBalances.js: balance resolution *)

\* getCosmosBalance: the answer of the Cosmos API in SEI, or Fail
getCosmosBalance(answer) == IF answer = Fail THEN Fail ELSE useiToSei(answer)

\* getEvmBalance: the answer of the EVM RPC in SEI, or Fail
getEvmBalance(answer) == IF answer = Fail THEN Fail ELSE formatSeiBalance(answer)

\* getSeiBalance: cache, then the Cosmos API, then the EVM RPC, then 0
getSeiBalance(cachedBalance, cosmosAnswer, evmAnswer) ==
    IF cachedBalance # NoCache THEN cachedBalance
    ELSE IF getCosmosBalance(cosmosAnswer) # Fail THEN getCosmosBalance(cosmosAnswer)
    ELSE IF getEvmBalance(evmAnswer) # Fail THEN getEvmBalance(evmAnswer)
    ELSE 0

\* history: the amount the first answering source reports, in model units
SourceAmount(cosmosAnswer, evmAnswer) ==
    IF cosmosAnswer # Fail THEN cosmosAnswer * 10
    ELSE IF evmAnswer # Fail THEN evmAnswer ELSE 0

\* every source failed (and the cache had nothing)
Exhausted(cachedBalance, cosmosAnswer, evmAnswer) ==
    cachedBalance = NoCache /\ cosmosAnswer = Fail /\ evmAnswer = Fail

-----------------------------------------------------------------------------
(* Tables *)

Put(f, k, v) == [x \in DOMAIN f \cup {k} |-> IF x = k THEN v ELSE f[x]]
Empty == [x \in {} |-> 0]
Includes(s, e) == \E i \in 1..Len(s) : s[i] = e
Elems(s) == {s[i] : i \in 1..Len(s)}

\* a && b of JavaScript on "true" / "false" / "null"
jsAnd(a, b) == IF a = T THEN b ELSE a

NewWallet == [balances |-> Empty, votes |-> <<>>, finalBalance |-> NoBal,
              finalBalanceValid |-> Null]

-----------------------------------------------------------------------------
(* walletBalances.js: the ledger on the two JSON files *)

\* recordVote mutated: no "already processed" test
recordVoteNoSkip(vs, ws, txHash, evmAddress, blockNumber, balanceAtVote, balanceBeforeVote, minSeiRequired) ==
    LET addr == toLowerCase(evmAddress)
        at == formatSeiBalance(balanceAtVote)
        before == formatSeiBalance(balanceBeforeVote)
        w0 == IF addr \in DOMAIN ws THEN ws[addr] ELSE NewWallet
    IN  [votes |-> Put(vs, txHash, [evmAddress |-> addr, blockNumber |-> blockNumber,
                        balanceAtVote |-> at, balanceBeforeVote |-> before,
                        isValid |-> Bool3(at >= minSeiRequired /\ before >= minSeiRequired),
                        finalIsValid |-> Null]),
         wallets |-> Put(ws, addr, [w0 EXCEPT
                        !.balances = Put(Put(@, blockNumber, at), blockNumber - 1, before),
                        !.votes = Append(@, txHash)])]

\* recordVote mutated: only the balance at the vote block is compared
recordVoteAtOnly(vs, ws, txHash, evmAddress, blockNumber, balanceAtVote, balanceBeforeVote, minSeiRequired) ==
    IF txHash \in DOMAIN vs THEN [votes |-> vs, wallets |-> ws]
    ELSE
    LET addr == toLowerCase(evmAddress)
        at == formatSeiBalance(balanceAtVote)
        before == formatSeiBalance(balanceBeforeVote)
        w0 == IF addr \in DOMAIN ws THEN ws[addr] ELSE NewWallet
    IN  [votes |-> Put(vs, txHash, [evmAddress |-> addr, blockNumber |-> blockNumber,
                        balanceAtVote |-> at, balanceBeforeVote |-> before,
                        isValid |-> Bool3(at >= minSeiRequired),
                        finalIsValid |-> Null]),
         wallets |-> Put(ws, addr, [w0 EXCEPT
                        !.balances = Put(Put(@, blockNumber, at), blockNumber - 1, before),
                        !.votes = IF Includes(@, txHash) THEN @ ELSE Append(@, txHash)])]

\* recordVote: the tables after the call
recordVote(vs, ws, txHash, evmAddress, blockNumber, balanceAtVote, balanceBeforeVote, minSeiRequired) ==
    IF txHash \in DOMAIN vs THEN [votes |-> vs, wallets |-> ws]
    ELSE
    LET addr == toLowerCase(evmAddress)
        at == formatSeiBalance(balanceAtVote)
        before == formatSeiBalance(balanceBeforeVote)
        w0 == IF addr \in DOMAIN ws THEN ws[addr] ELSE NewWallet
    IN  [votes |-> Put(vs, txHash, [evmAddress |-> addr, blockNumber |-> blockNumber,
                        balanceAtVote |-> at, balanceBeforeVote |-> before,
                        isValid |-> Bool3(at >= minSeiRequired /\ before >= minSeiRequired),
                        finalIsValid |-> Null]),
         wallets |-> Put(ws, addr, [w0 EXCEPT
                        !.balances = Put(Put(@, blockNumber, at), blockNumber - 1, before),
                        !.votes = IF Includes(@, txHash) THEN @ ELSE Append(@, txHash)])]

\* finalizeWallet mutated: the pass also rewrites the verdict at vote time
finalizeWalletRejudge(vs, ws, addr, finalBalance, minSeiRequired) ==
    LET formattedBalance == formatSeiBalance(finalBalance)
        valid == Bool3(formattedBalance >= minSeiRequired)
    IN  [votes |-> [tx \in DOMAIN vs |->
                        IF Includes(ws[addr].votes, tx)
                        THEN [vs[tx] EXCEPT !.finalIsValid = jsAnd(vs[tx].isValid, valid),
                                            !.isValid = jsAnd(vs[tx].isValid, valid)]
                        ELSE vs[tx]],
         wallets |-> [ws EXCEPT ![addr].finalBalance = formattedBalance,
                                ![addr].finalBalanceValid = valid]]

\* the body of the loop of checkFinalBalances for one wallet (try branch)
finalizeWallet(vs, ws, addr, finalBalance, minSeiRequired) ==
    LET formattedBalance == formatSeiBalance(finalBalance)
        valid == Bool3(formattedBalance >= minSeiRequired)
    IN  [votes |-> [tx \in DOMAIN vs |->
                        IF Includes(ws[addr].votes, tx)
                        THEN [vs[tx] EXCEPT !.finalIsValid = jsAnd(vs[tx].isValid, valid)]
                        ELSE vs[tx]],
         wallets |-> [ws EXCEPT ![addr].finalBalance = formattedBalance,
                                ![addr].finalBalanceValid = valid]]

\* the catch branch of that loop: the lookup threw
invalidateWallet(vs, ws, addr) ==
    [votes |-> [tx \in DOMAIN vs |->
                    IF Includes(ws[addr].votes, tx)
                    THEN [vs[tx] EXCEPT !.finalIsValid = F]
                    ELSE vs[tx]],
     wallets |-> [ws EXCEPT ![addr].finalBalance = 0,
                            ![addr].finalBalanceValid = F]]

\* index.js processBatchOfVotes, one vote: resolve the two balances, recordVote
IngestVote(tx, atC, atE, beC, beE) ==
    LET at == getSeiBalance(NoCache, atC, atE)
        before == getSeiBalance(NoCache, beC, beE)
        r == recordVote(votes, wallets, tx, FromOf(tx), BlockOf(tx), at, before, MinUnits)
    IN  /\ impl = "walletBalances"
        /\ votes' = r.votes
        /\ wallets' = r.wallets
        /\ ptEx' = IF tx \in DOMAIN votes THEN ptEx
                   ELSE IF Exhausted(NoCache, atC, atE) \/ Exhausted(NoCache, beC, beE)
                        THEN ptEx \cup {tx} ELSE ptEx \ {tx}
        /\ lastOp' = IF tx \in DOMAIN votes
                     THEN [op |-> "recordVote", tx |-> tx, dup |-> TRUE,
                           at |-> NoBal, before |-> NoBal]
                     ELSE [op |-> "recordVote", tx |-> tx, dup |-> FALSE,
                           at |-> SourceAmount(atC, atE),
                           before |-> SourceAmount(beC, beE)]
        /\ UNCHANGED <<impl, cfPc, cfVotes, cfWallets, cfTodo, finEx, finExVotes, cfEx>>
        /\ UNCHANGED notLedger

\* walletBalances.checkFinalBalances: load the two tables
CheckFinalLoad ==
    /\ impl = "walletBalances"
    /\ cfPc = "idle"
    /\ cfPc' = "running"
    /\ cfVotes' = votes
    /\ cfWallets' = wallets
    /\ cfTodo' = DOMAIN wallets
    /\ cfEx' = Empty
    /\ lastOp' = [op |-> "checkFinalLoad", tx |-> 0, dup |-> FALSE, at |-> NoBal,
                  before |-> NoBal]
    /\ UNCHANGED <<impl, votes, wallets, ptEx, finEx, finExVotes>>
    /\ UNCHANGED notLedger

\* walletBalances.checkFinalBalances: one wallet of the loop
CheckFinalWallet(addr, cAns, eAns) ==
    LET r == IF Len(cfWallets[addr].votes) = 0
             THEN [votes |-> cfVotes, wallets |-> cfWallets]
             ELSE finalizeWallet(cfVotes, cfWallets, addr,
                                 getSeiBalance(NoCache, cAns, eAns), MinUnits)
    IN  /\ impl = "walletBalances"
        /\ cfPc = "running"
        /\ addr \in cfTodo
        /\ cfTodo' = cfTodo \ {addr}
        /\ cfVotes' = r.votes
        /\ cfWallets' = r.wallets
        /\ cfEx' = IF Len(cfWallets[addr].votes) # 0 /\ Exhausted(NoCache, cAns, eAns)
                   THEN Put(cfEx, addr, Elems(cfWallets[addr].votes))
                   ELSE cfEx
        /\ lastOp' = [op |-> "checkFinalWallet", tx |-> 0, dup |-> FALSE, at |-> NoBal,
                      before |-> NoBal]
        /\ UNCHANGED <<impl, votes, wallets, cfPc, ptEx, finEx, finExVotes>>
        /\ UNCHANGED notLedger

\* walletBalances.checkFinalBalances: write the two tables back
CheckFinalSave ==
    /\ impl = "walletBalances"
    /\ cfPc = "running"
    /\ cfTodo = {}
    /\ cfPc' = "idle"
    /\ votes' = cfVotes
    /\ wallets' = cfWallets
    /\ finEx' = DOMAIN cfEx
    /\ finExVotes' = UNION {cfEx[w] : w \in DOMAIN cfEx}
    /\ ptEx' = ptEx \cap DOMAIN cfVotes
    /\ cfVotes' = Empty
    /\ cfWallets' = Empty
    /\ cfEx' = Empty
    /\ lastOp' = [op |-> "checkFinalSave", tx |-> 0, dup |-> FALSE, at |-> NoBal,
                  before |-> NoBal]
    /\ UNCHANGED <<impl, cfTodo>>
    /\ UNCHANGED notLedger

-----------------------------------------------------------------------------
(* batchProcessor.js (src/unnamed/part_000): the ledger in memory *)

\* Number(x.toFixed(6)) if x is a number, else null
bpFormat(x) == IF x = NoBal THEN NoBal ELSE formatSeiBalance(x)

\* processVote: the tables after the call
processVote(vs, ws, vote) ==
    IF vote.transactionHash \in DOMAIN vs THEN [votes |-> vs, wallets |-> ws]
    ELSE
    LET addr == toLowerCase(vote.from)
        at == bpFormat(vote.balanceAtVote)
        before == bpFormat(vote.balanceBeforeVote)
        isValid == IF at # NoBal /\ before # NoBal
                   THEN Bool3(at >= vote.minSeiRequired /\ before >= vote.minSeiRequired)
                   ELSE Null
        w0 == IF addr \in DOMAIN ws THEN ws[addr] ELSE NewWallet
        b1 == IF at # NoBal THEN Put(w0.balances, vote.blockNumber, at) ELSE w0.balances
        b2 == IF before # NoBal THEN Put(b1, vote.blockNumber - 1, before) ELSE b1
    IN  [votes |-> Put(vs, vote.transactionHash,
                       [evmAddress |-> addr, blockNumber |-> vote.blockNumber,
                        balanceAtVote |-> at, balanceBeforeVote |-> before,
                        isValid |-> isValid, finalIsValid |-> Null]),
         wallets |-> Put(ws, addr, [w0 EXCEPT
                        !.balances = b2,
                        !.votes = IF Includes(@, vote.transactionHash) THEN @
                                  ELSE Append(@, vote.transactionHash)])]

\* updateVoteBalances: the tables after the call
updateVoteBalances(vs, ws, txHash, balanceAtVote, balanceBeforeVote, minSeiRequired) ==
    IF txHash \notin DOMAIN vs THEN [votes |-> vs, wallets |-> ws]
    ELSE
    LET at == formatSeiBalance(balanceAtVote)
        before == formatSeiBalance(balanceBeforeVote)
        addr == vs[txHash].evmAddress
        blk == vs[txHash].blockNumber
    IN  [votes |-> [vs EXCEPT ![txHash].balanceAtVote = at,
                              ![txHash].balanceBeforeVote = before,
                              ![txHash].isValid =
                                  Bool3(at >= minSeiRequired /\ before >= minSeiRequired)],
         wallets |-> IF addr \in DOMAIN ws
                     THEN [ws EXCEPT ![addr].balances = Put(Put(@, blk, at), blk - 1, before)]
                     ELSE ws]

VoteInput(tx, at, before) ==
    [transactionHash |-> tx, from |-> FromOf(tx), blockNumber |-> BlockOf(tx),
     balanceAtVote |-> at, balanceBeforeVote |-> before, minSeiRequired |-> MinUnits]

\* BatchProcessor.processVote on a vote object
ProcessVote(tx, at, before) ==
    LET r == processVote(votes, wallets, VoteInput(tx, at, before))
    IN  /\ impl = "batchProcessor"
        /\ votes' = r.votes
        /\ wallets' = r.wallets
        /\ lastOp' = IF tx \in DOMAIN votes
                     THEN [op |-> "processVote", tx |-> tx, dup |-> TRUE,
                           at |-> NoBal, before |-> NoBal]
                     ELSE [op |-> "processVote", tx |-> tx, dup |-> FALSE,
                           at |-> at, before |-> before]
        /\ UNCHANGED <<impl, cfPc, cfVotes, cfWallets, cfTodo, ptEx, finEx, finExVotes, cfEx>>
        /\ UNCHANGED notLedger

\* BatchProcessor.updateVoteBalances
UpdateVoteBalances(tx, at, before) ==
    LET r == updateVoteBalances(votes, wallets, tx, at, before, MinUnits)
    IN  /\ impl = "batchProcessor"
        /\ votes' = r.votes
        /\ wallets' = r.wallets
        /\ lastOp' = [op |-> "updateVoteBalances", tx |-> tx, dup |-> tx \in DOMAIN votes,
                      at |-> NoBal, before |-> NoBal]
        /\ UNCHANGED <<impl, cfPc, cfVotes, cfWallets, cfTodo, ptEx, finEx, finExVotes, cfEx>>
        /\ UNCHANGED notLedger

\* BatchProcessor.checkFinalBalances: take the list of wallet addresses
BpCheckFinalStart ==
    /\ impl = "batchProcessor"
    /\ cfPc = "idle"
    /\ cfPc' = "running"
    /\ cfTodo' = DOMAIN wallets
    /\ lastOp' = [op |-> "checkFinalLoad", tx |-> 0, dup |-> FALSE, at |-> NoBal,
                  before |-> NoBal]
    /\ UNCHANGED <<impl, votes, wallets, cfVotes, cfWallets, ptEx, finEx, finExVotes, cfEx>>
    /\ UNCHANGED notLedger

\* BatchProcessor.checkFinalBalances: one wallet; answer is what getBalanceFunc
\* returned, or Fail when it threw (the catch branch)
BpCheckFinalWallet(addr, answer) ==
    LET skip == Len(wallets[addr].votes) = 0
        r == IF skip THEN [votes |-> votes, wallets |-> wallets]
             ELSE IF answer = Fail THEN invalidateWallet(votes, wallets, addr)
             ELSE finalizeWallet(votes, wallets, addr, answer, MinUnits)
        mine == Elems(wallets[addr].votes)
    IN  /\ impl = "batchProcessor"
        /\ cfPc = "running"
        /\ addr \in cfTodo
        /\ cfTodo' = cfTodo \ {addr}
        /\ votes' = r.votes
        /\ wallets' = r.wallets
        /\ finEx' = IF skip THEN finEx
                    ELSE IF answer \in {Fail, 0} THEN finEx \cup {addr} ELSE finEx \ {addr}
        /\ finExVotes' = IF skip THEN finExVotes
                         ELSE IF answer \in {Fail, 0} THEN finExVotes \cup mine
                         ELSE finExVotes \ mine
        /\ lastOp' = [op |-> "checkFinalWallet", tx |-> 0, dup |-> FALSE, at |-> NoBal,
                      before |-> NoBal]
        /\ UNCHANGED <<impl, cfPc, cfVotes, cfWallets, ptEx, cfEx>>
        /\ UNCHANGED notLedger

\* BatchProcessor.checkFinalBalances: the loop is over
BpCheckFinalEnd ==
    /\ impl = "batchProcessor"
    /\ cfPc = "running"
    /\ cfTodo = {}
    /\ cfPc' = "idle"
    /\ lastOp' = [op |-> "checkFinalSave", tx |-> 0, dup |-> FALSE, at |-> NoBal,
                  before |-> NoBal]
    /\ UNCHANGED <<impl, votes, wallets, cfVotes, cfWallets, cfTodo, ptEx, finEx,
                   finExVotes, cfEx>>
    /\ UNCHANGED notLedger

-----------------------------------------------------------------------------
(* Vote detection: blockScanner.js, realTimeMonitor.js, scripts/test.js *)

PROXY_ADDRESS == "0x1e18"
IMPLEMENTATION_ADDRESS == "0x05b9"
VOTE_METHOD_SIG == "c7b8896b"

NoTo == "null"                         \* tx.to of a contract creation

\* String.toLowerCase on the addresses of the model
lower(a) == IF a = "0x1E18" THEN "0x1e18" ELSE a

\* data as the list of its 4-byte words after "0x"
startsWith(data, sig) == Len(data) >= 1 /\ data[1] = sig

\* the transactions of the model: recipient, value, data, and the receipt the
\* node answers: "missing" (null), "failed" (status 0), "ok" (status 1), with
\* the addresses of its logs
TxShapes ==
    [to : {"0x1E18", "0x1e18", "0x05b9", "0xdead", NoTo},
     value : {0, 1},
     data : {<<>>, <<"c7b8896b", "01">>, <<"a9059cbb">>},
     receipt : {"missing", "failed", "ok"},
     logs : SUBSET {"0x1e18", "0x05b9"}]

NoTx == [to |-> NoTo, value |-> 0, data |-> <<>>, receipt |-> "missing", logs |-> {}]

DetectIdle ==
    /\ dWho = "none"
    /\ dTx = NoTx
    /\ dEmitted = FALSE

\* blockScanner.js isVoteTransaction (and its copy in scripts/test.js)
isVoteTransaction(tx) ==
    LET isDirectTransfer == tx.to # NoTo /\ lower(tx.to) = PROXY_ADDRESS /\ tx.value > 0
        isMethodCall == tx.to # NoTo /\ lower(tx.to) = PROXY_ADDRESS
                        /\ startsWith(tx.data, VOTE_METHOD_SIG)
        hasImplLogs == IMPLEMENTATION_ADDRESS \in tx.logs
        hasProxyLogs == PROXY_ADDRESS \in tx.logs
    IN  isDirectTransfer \/ isMethodCall \/ hasImplLogs \/ hasProxyLogs

\* processBlockRange: the filter potentialVotes
potentialVote(tx) ==
    tx.to # NoTo /\ (\/ lower(tx.to) = PROXY_ADDRESS
                     \/ (lower(tx.to) = IMPLEMENTATION_ADDRESS /\ Len(tx.data) > 0))

\* the monitor's block handler and checkBlockForVotes: the filter relevantTxs
relevantTx(tx) ==
    tx.to # NoTo /\ (lower(tx.to) = PROXY_ADDRESS \/ lower(tx.to) = IMPLEMENTATION_ADDRESS)

\* !receipt || receipt.status !== 1 is false
receiptOk(tx) == tx.receipt = "ok"

\* the monitor's block handler: isVote
monitorIsVote(tx) ==
    LET isDirectVote == lower(tx.to) = PROXY_ADDRESS /\ tx.value > 0
        isProxyMethodCall == lower(tx.to) = PROXY_ADDRESS /\ Len(tx.data) > 0
        hasImplLogs == IMPLEMENTATION_ADDRESS \in tx.logs
        hasProxyLogs == PROXY_ADDRESS \in tx.logs
    IN  \/ isDirectVote
        \/ (isProxyMethodCall /\ (hasImplLogs \/ hasProxyLogs))
        \/ hasImplLogs
        \/ hasProxyLogs

\* processBlockRange mutated: the receipt is fetched but its status is not tested
processBlockRangeEmitsAnyStatus(tx) ==
    potentialVote(tx) /\ tx.receipt # "missing" /\ isVoteTransaction(tx)

\* processBlockRange: tx is pushed to blockVotes and passed to onVoteFound
processBlockRangeEmits(tx) == potentialVote(tx) /\ receiptOk(tx) /\ isVoteTransaction(tx)

\* the monitor's block handler: tx is passed to onVoteFound
monitorEmits(tx) == relevantTx(tx) /\ receiptOk(tx) /\ monitorIsVote(tx)

\* scripts/test.js checkBlockForVotes: tx is pushed to votes
checkBlockForVotesEmits(tx) == relevantTx(tx) /\ receiptOk(tx) /\ isVoteTransaction(tx)

ProcessBlockRangeTx(tx) ==
    /\ dWho' = "processBlockRange"
    /\ dTx' = tx
    /\ dEmitted' = processBlockRangeEmits(tx)
    /\ UNCHANGED <<ledgerVars, trackVars, moreVars>>

MonitorTx(tx) ==
    /\ dWho' = "monitor"
    /\ dTx' = tx
    /\ dEmitted' = monitorEmits(tx)
    /\ UNCHANGED <<ledgerVars, trackVars, moreVars>>

CheckBlockForVotesTx(tx) ==
    /\ dWho' = "checkBlockForVotes"
    /\ dTx' = tx
    /\ dEmitted' = checkBlockForVotesEmits(tx)
    /\ UNCHANGED <<ledgerVars, trackVars, moreVars>>


-----------------------------------------------------------------------------
(* The tracker: index.js, scanBlockRangeForVotes, monitorForVotes *)

BATCH_SIZE == 50
MAX_CONCURRENT_BATCHES == 2
PROCESS_BATCH_SIZE == 100

StartBlock == 1                         \* what findStartBlock answers

Max(S) == CHOOSE x \in S : \A y \in S : y <= x
Min2(a, b) == IF a <= b THEN a ELSE b

\* The chain: every transaction of the model is a transfer to the proxy that
\* succeeded, and every wallet holds 120 SEI at every block.
ShapeOf(tx) == [to |-> "0x1E18", value |-> 1, data |-> <<>>, receipt |-> "ok", logs |-> {}]
ChainUsei == 120 * USEI_TO_SEI
TxSeq == [i \in 1..MaxTx |-> i]
HeadValues == {BlockOf(tx) - 1 : tx \in Tx} \cup {BlockOf(tx) : tx \in Tx}
              \cup {BlockOf(MaxTx) + 60}

NoScan == [from |-> 0, to |-> 0, next |-> 0, lastProcessedBlock |-> 0, votes |-> <<>>,
           examinedTo |-> 0, saved |-> 0]

\* scanBlockRangeForVotes: the batches { start, end } of a range, by their start
batchStarts(from, to) == {b \in from..to : (b - from) % BATCH_SIZE = 0}
batchEnd(start, to) == Min2(start + BATCH_SIZE - 1, to)

\* the batches of the group that starts at next
groupStarts(next, to) ==
    {b \in batchStarts(next, to) : b < next + MAX_CONCURRENT_BATCHES * BATCH_SIZE}

\* batchVotes mutated: the last block of a batch is left out
batchVotesShort(starts, to) ==
    SelectSeq(TxSeq, LAMBDA tx :
        /\ \E b \in starts : b <= BlockOf(tx) /\ BlockOf(tx) < batchEnd(b, to)
        /\ processBlockRangeEmits(ShapeOf(tx)))

\* the votes processBlockRange finds in the batches that start at starts,
\* in the order of the blocks
batchVotes(starts, to) ==
    SelectSeq(TxSeq, LAMBDA tx :
        /\ \E b \in starts : b <= BlockOf(tx) /\ BlockOf(tx) <= batchEnd(b, to)
        /\ processBlockRangeEmits(ShapeOf(tx)))

\* votes.set(vote.transactionHash, vote) for each vote of list
mapSet(found, list) == found \o SelectSeq(list, LAMBDA tx : ~Includes(found, tx))

\* history: the last block of the longest prefix of the group whose batches
\* were all fetched and examined
examinedPrefix(next, to, failing) ==
    LET good == {b \in groupStarts(next, to) :
                    \A c \in groupStarts(next, to) : c <= b => c \notin failing}
    IN  IF good = {} THEN next - 1 ELSE batchEnd(Max(good), to)

\* loadLastProcessedBlock mutated: the file is not read
loadLastProcessedBlockNone == 0 * checkpoint

\* loadLastProcessedBlock
loadLastProcessedBlock == checkpoint

\* processBatchOfVotes, one vote: translate the address, look up the two
\* balances, recordVote; a failed translation is logged and the vote is skipped
processOneVote(vs, ws, tx, translated) ==
    IF ~translated THEN [votes |-> vs, wallets |-> ws]
    ELSE recordVote(vs, ws, tx, FromOf(tx), BlockOf(tx),
                    getSeiBalance(NoCache, ChainUsei, Fail),
                    getSeiBalance(NoCache, ChainUsei, Fail), MinUnits)

\* trackVotingActivity up to the call of scanBlockRangeForVotes
TrackStart ==
    LET fromBlock == IF loadLastProcessedBlock = 0 THEN StartBlock ELSE loadLastProcessedBlock
    IN  /\ pc = "stopped"
        /\ checkpoint' = IF loadLastProcessedBlock = 0 THEN fromBlock ELSE checkpoint
        /\ currentBlock' = head
        /\ checkpointDue' = FALSE
        /\ progressDue' = FALSE
        /\ IF fromBlock < head
           THEN /\ pc' = "scanning"
                /\ scan' = [from |-> fromBlock, to |-> head, next |-> fromBlock,
                            lastProcessedBlock |-> fromBlock - 1, votes |-> <<>>,
                            examinedTo |-> fromBlock - 1, saved |-> 0]
           ELSE /\ pc' = "monitoring"
                /\ scan' = NoScan
        /\ UNCHANGED <<head, events, evI, evDone, pendingVotes, processing, failed,
                       coveredOnce, coveredTwice>>
        /\ UNCHANGED <<ledgerVars, detectVars, moreVars>>

\* scanBlockRangeForVotes(fromBlock, currentBlock, ..., null, true): one turn of
\* the loop over the groups of batches; the batches in failing threw. After the
\* last group the final save and the return.
ScanGroup(failing) ==
    LET g == groupStarts(scan.next, scan.to)
        found == mapSet(scan.votes, batchVotes(g \ failing, scan.to))
        lastBatchEnd == Max({batchEnd(b, scan.to) : b \in g})
        last == IF lastBatchEnd > scan.lastProcessedBlock THEN lastBatchEnd
                ELSE scan.lastProcessedBlock
        next == scan.next + MAX_CONCURRENT_BATCHES * BATCH_SIZE
        isLast == next > scan.to
        saves == progressDue \/ isLast
    IN  /\ pc = "scanning"
        /\ failing \subseteq g
        /\ scan' = [scan EXCEPT
                      !.next = next,
                      !.lastProcessedBlock = last,
                      !.votes = found,
                      !.examinedTo = IF scan.examinedTo = scan.next - 1
                                     THEN examinedPrefix(scan.next, scan.to, failing)
                                     ELSE @,
                      !.saved = IF saves THEN last ELSE @]
        /\ checkpoint' = IF saves THEN last ELSE checkpoint
        /\ progressDue' = IF saves THEN FALSE ELSE progressDue
        /\ failed' = (failed \/ failing # {})
        /\ pc' = IF isLast THEN "ingesting" ELSE "scanning"
        /\ events' = IF isLast THEN found ELSE events
        /\ evI' = 0
        /\ evDone' = {}
        /\ UNCHANGED <<head, currentBlock, pendingVotes, processing, checkpointDue,
                       coveredOnce, coveredTwice>>
        /\ UNCHANGED <<ledgerVars, detectVars, moreVars>>

\* saveLastProcessedBlock(blockNumber)
saveLastProcessedBlock(blockNumber) ==
    /\ checkpoint' = blockNumber
    /\ checkpointDue' = FALSE

\* trackVotingActivity: the batch of events the loop is at
currentBatch ==
    {events[k] : k \in {j \in 1..Len(events) : evI < j /\ j <= evI + PROCESS_BATCH_SIZE}}

\* processBatchOfVotes: one vote of the batch
ProcessBatchVote(tx, translated) ==
    LET r == processOneVote(votes, wallets, tx, translated)
    IN  /\ pc = "ingesting"
        /\ tx \in currentBatch \ evDone
        /\ votes' = r.votes
        /\ wallets' = r.wallets
        /\ evDone' = evDone \cup {tx}
        /\ failed' = (failed \/ ~translated)
        /\ UNCHANGED <<checkpoint, head, pc, currentBlock, scan, events, evI, pendingVotes,
                       processing, checkpointDue, progressDue, coveredOnce, coveredTwice>>
        /\ UNCHANGED <<ledgerRest, detectVars, moreVars>>

\* trackVotingActivity: a batch is done, saveLastProcessedBlock(latestBlock)
IngestBatchDone ==
    /\ pc = "ingesting"
    /\ currentBatch # {}
    /\ currentBatch \subseteq evDone
    /\ saveLastProcessedBlock(Max({BlockOf(tx) : tx \in currentBatch}))
    /\ evI' = evI + PROCESS_BATCH_SIZE
    /\ evDone' = {}
    /\ UNCHANGED <<head, pc, currentBlock, scan, events, pendingVotes, processing,
                   progressDue, failed, coveredOnce, coveredTwice>>
    /\ UNCHANGED <<ledgerVars, detectVars, moreVars>>

\* trackVotingActivity: after the loop, saveLastProcessedBlock(currentBlock) and
\* the start of the monitor at currentBlock
HistoricalDone ==
    LET inRange == {tx \in Tx : scan.from <= BlockOf(tx) /\ BlockOf(tx) <= scan.to}
    IN  /\ pc = "ingesting"
        /\ evI >= Len(events)
        /\ saveLastProcessedBlock(currentBlock)
        /\ pc' = "monitoring"
        /\ scan' = NoScan
        /\ events' = <<>>
        /\ evI' = 0
        /\ coveredOnce' = IF failed THEN coveredOnce ELSE coveredOnce \cup inRange
        /\ coveredTwice' = IF failed THEN coveredTwice
                           ELSE coveredTwice \cup (coveredOnce \cap inRange)
        /\ UNCHANGED <<head, currentBlock, evDone, pendingVotes, processing, progressDue,
                       failed>>
        /\ UNCHANGED <<ledgerVars, detectVars, moreVars>>

\* the votes the monitor's handler finds for the new block b: a range scan of
\* the missed blocks (its batches in failing threw), or the one block itself
monitorFinds(b, failing) ==
    IF b > currentBlock + 1
    THEN batchVotes(batchStarts(currentBlock + 1, b) \ failing, b)
    ELSE SelectSeq(TxSeq, LAMBDA tx : BlockOf(tx) = b /\ monitorEmits(ShapeOf(tx)))

\* monitorForVotes: the handler of a new block b, with handleNewVote for every
\* vote found and the block-processed callback of trackVotingActivity
MonitorBlock(b, failing) ==
    LET found == monitorFinds(b, failing)
        queued == pendingVotes \cup Elems(found)
    IN  /\ pc = "monitoring"
        /\ b > currentBlock
        /\ b <= head
        /\ failing \subseteq (IF b > currentBlock + 1 THEN batchStarts(currentBlock + 1, b)
                              ELSE {})
        /\ IF processing = {}
           THEN processing' = queued /\ pendingVotes' = {}
           ELSE processing' = processing /\ pendingVotes' = queued
        /\ IF checkpointDue
           THEN saveLastProcessedBlock(IF found # <<>> THEN BlockOf(found[1]) ELSE b)
           ELSE UNCHANGED <<checkpoint, checkpointDue>>
        /\ currentBlock' = b
        /\ failed' = (failed \/ failing # {})
        /\ UNCHANGED <<head, pc, scan, events, evI, evDone, progressDue,
                       coveredOnce, coveredTwice>>
        /\ UNCHANGED <<ledgerVars, detectVars, moreVars>>

\* processPendingVotes: one vote of the running processingPromise; when it was
\* the last, the votes that arrived meanwhile are taken
ProcessPendingVote(tx, translated) ==
    LET r == processOneVote(votes, wallets, tx, translated)
    IN  /\ pc = "monitoring"
        /\ tx \in processing
        /\ votes' = r.votes
        /\ wallets' = r.wallets
        /\ IF processing = {tx}
           THEN processing' = pendingVotes /\ pendingVotes' = {}
           ELSE processing' = processing \ {tx} /\ UNCHANGED pendingVotes
        /\ failed' = (failed \/ ~translated)
        /\ UNCHANGED <<checkpoint, head, pc, currentBlock, scan, events, evI, evDone,
                       checkpointDue, progressDue, coveredOnce, coveredTwice>>
        /\ UNCHANGED <<ledgerRest, detectVars, moreVars>>

\* cleanup: SIGINT or SIGTERM, process.exit(0); the files stay
Cleanup ==
    /\ pc # "stopped"
    /\ pc' = "stopped"
    /\ currentBlock' = 0
    /\ scan' = NoScan
    /\ events' = <<>>
    /\ evI' = 0
    /\ evDone' = {}
    /\ pendingVotes' = {}
    /\ processing' = {}
    /\ checkpointDue' = FALSE
    /\ progressDue' = FALSE
    /\ UNCHANGED <<checkpoint, head, failed, coveredOnce, coveredTwice>>
    /\ UNCHANGED <<ledgerVars, detectVars, moreVars>>

\* time passes: the two save intervals are over
TimePasses ==
    /\ pc # "stopped"
    /\ ~checkpointDue \/ (pc = "scanning" /\ ~progressDue)
    /\ checkpointDue' = TRUE
    /\ progressDue' = (pc = "scanning")
    /\ UNCHANGED <<checkpoint, head, pc, currentBlock, scan, events, evI, evDone,
                   pendingVotes, processing, failed, coveredOnce, coveredTwice>>
    /\ UNCHANGED <<ledgerVars, detectVars, moreVars>>

\* the chain grows to height h
ChainGrows(h) ==
    /\ h > head
    /\ head' = h
    /\ UNCHANGED <<checkpoint, pc, currentBlock, scan, events, evI, evDone, pendingVotes,
                   processing, checkpointDue, progressDue, failed, coveredOnce,
                   coveredTwice>>
    /\ UNCHANGED <<ledgerVars, detectVars, moreVars>>

TrackIdle ==
    /\ checkpoint = 0
    /\ head = StartBlock
    /\ pc = "stopped"
    /\ currentBlock = 0
    /\ scan = NoScan
    /\ events = <<>>
    /\ evI = 0
    /\ evDone = {}
    /\ pendingVotes = {}
    /\ processing = {}
    /\ checkpointDue = FALSE
    /\ progressDue = FALSE
    /\ failed = FALSE
    /\ coveredOnce = {}
    /\ coveredTwice = {}

-----------------------------------------------------------------------------
(* blockScanner.js: one call of scanBlockRangeForVotes, its batches in flight *)

\* MAX_CONCURRENT_BATCHES = Math.max(2, Math.min(os.cpus().length - 1, 4))
ConcurrencyDegrees == 2..4

Min(S) == CHOOSE x \in S : \A y \in S : x <= y

\* the ranges a call is made with
ScanFroms == {StartBlock} \cup {BlockOf(tx) : tx \in Tx}

ScanRunIdle ==
    scanRun = [pc |-> "idle", from |-> 0, to |-> 0, conc |-> 0, next |-> 0, pending |-> {},
               results |-> Empty, votes |-> <<>>, order |-> <<>>]

\* batches.slice(i, i + MAX_CONCURRENT_BATCHES), by the start of each batch
currentBatches(next, to, conc) == {b \in batchStarts(next, to) : b < next + conc * BATCH_SIZE}

\* the merge mutated: only the result of the last batch of the group is kept
mergeResultsLast(found, results, starts) ==
    IF starts = {} THEN found ELSE mapSet(found, results[Max(starts)])

\* for (const results of batchResults) for (const vote of results) votes.set(...):
\* the results of the group, in the order of the batches
RECURSIVE mergeResults(_, _, _)
mergeResults(found, results, starts) ==
    IF starts = {} THEN found
    ELSE mergeResults(mapSet(found, results[Min(starts)]), results, starts \ {Min(starts)})

\* scanBlockRangeForVotes(fromBlock, toBlock, ...) is called; the first group of
\* batches is started
ScanCall(fromBlock, toBlock, conc) ==
    /\ scanRun.pc = "idle"
    /\ fromBlock <= toBlock
    /\ scanRun' = [pc |-> "running", from |-> fromBlock, to |-> toBlock, conc |-> conc,
                   next |-> fromBlock, pending |-> currentBatches(fromBlock, toBlock, conc),
                   results |-> Empty, votes |-> <<>>, order |-> <<>>]
    /\ UNCHANGED <<ledgerVars, detectVars, trackVars, locator, resolver, lockFile, instance, report, saving, gateway, store, sweep, live, canon, periodic, finale, queue, balanceCache, processor>>

\* one batch of the group in flight completes: its promise resolves with the
\* votes of its blocks
BatchCompletes(b) ==
    /\ scanRun.pc = "running"
    /\ b \in scanRun.pending
    /\ scanRun' = [scanRun EXCEPT
                     !.pending = @ \ {b},
                     !.results = Put(@, b, batchVotes({b}, scanRun.to)),
                     !.order = Append(@, b)]
    /\ UNCHANGED <<ledgerVars, detectVars, trackVars, locator, resolver, lockFile, instance, report, saving, gateway, store, sweep, live, canon, periodic, finale, queue, balanceCache, processor>>

\* Promise.all(batchPromises) resolves: the results are merged into the Map in
\* the order of the batches, then the next group starts or the call returns
GroupResolves ==
    LET group == currentBatches(scanRun.next, scanRun.to, scanRun.conc)
        next == scanRun.next + scanRun.conc * BATCH_SIZE
    IN  /\ scanRun.pc = "running"
        /\ scanRun.pending = {}
        /\ scanRun' = [scanRun EXCEPT
                         !.votes = mergeResults(@, scanRun.results, group),
                         !.results = Empty,
                         !.next = next,
                         !.pending = IF next > scanRun.to THEN {}
                                     ELSE currentBatches(next, scanRun.to, scanRun.conc),
                         !.pc = IF next > scanRun.to THEN "returned" ELSE "running"]
        /\ UNCHANGED <<ledgerVars, detectVars, trackVars, locator, resolver, lockFile, instance, report, saving, gateway, store, sweep, live, canon, periodic, finale, queue, balanceCache, processor>>

\* the caller has taken Array.from(votes.values())
ScanTaken ==
    /\ scanRun.pc = "returned"
    /\ scanRun' = [pc |-> "idle", from |-> 0, to |-> 0, conc |-> 0, next |-> 0,
                   pending |-> {}, results |-> Empty, votes |-> <<>>, order |-> <<>>]
    /\ UNCHANGED <<ledgerVars, detectVars, trackVars, locator, resolver, lockFile, instance, report, saving, gateway, store, sweep, live, canon, periodic, finale, queue, balanceCache, processor>>

-----------------------------------------------------------------------------
(* findStartBlock.js: the block of a target time *)

BLOCK_TIME_MS == 400            \* the block time the estimate assumes
SEARCH_RANGE == 5000            \* blocks searched below and above the estimate
CLOSE_ENOUGH_MS == 1000         \* "within 1 second of the target, consider it found"

ChainHead == 100000             \* currentBlockNumber

\* The chains of the model tick at a constant interval (ms) from time 0, and
\* the target lies so far below the head that the search stays on the chain.
BlockIntervals == {400, 2500}
TargetDepth(interval) == IF interval = 400 THEN 6000 ELSE 900
TargetOffsets == {0, 1, 200, 399, 1200, 1250, 1300}

\* targets close to the head: a few minutes below it, and above it (a time no
\* block has reached yet)
NearDepths == {300, 0 - 10}

timestamp(interval, h) == interval * h

Abs(x) == IF x < 0 THEN 0 - x ELSE x
Max2(a, b) == IF a >= b THEN a ELSE b
Infinity == 0 - 1

\* the height the specification asks for: the first block at or after target
firstAtOrAfter(interval, target) == (target + interval - 1) \div interval

LocatorIdle ==
    locator = [pc |-> "idle", interval |-> 0, target |-> 0, lowerBound |-> 0, upperBound |-> 0,
               closestBlock |-> 0, closestDiff |-> Infinity, searchBlock |-> 0, result |-> 0]

\* findStartBlock(targetDate, ...): the estimate and the bounds of the search
FindStartBlock(interval, target) ==
    LET timeDiffMs == target - timestamp(interval, ChainHead)
        blockDiff == timeDiffMs \div BLOCK_TIME_MS
        estimatedBlock == Max2(0, ChainHead + blockDiff)
    IN  /\ locator.pc = "idle"
        /\ locator' = [pc |-> "search", interval |-> interval, target |-> target,
                       lowerBound |-> Max2(0, estimatedBlock - SEARCH_RANGE),
                       upperBound |-> estimatedBlock + SEARCH_RANGE,
                       closestBlock |-> estimatedBlock, closestDiff |-> Infinity,
                       searchBlock |-> 0, result |-> 0]
        /\ UNCHANGED <<ledgerVars, detectVars, trackVars, scanRun, resolver, lockFile, instance, report, saving, gateway, store, sweep, live, canon, periodic, finale, queue, balanceCache, processor>>

\* one turn of the binary search; a block above the head has no time and the
\* lookup throws
SearchStep ==
    LET midBlock == (locator.lowerBound + locator.upperBound) \div 2
        blockTime == timestamp(locator.interval, midBlock)
        diffMs == Abs(blockTime - locator.target)
        closer == locator.closestDiff = Infinity \/ diffMs < locator.closestDiff
    IN  /\ locator.pc = "search"
        /\ locator.lowerBound <= locator.upperBound
        /\ locator' =
              IF midBlock > ChainHead THEN [locator EXCEPT !.pc = "failed"]
              ELSE IF diffMs < CLOSE_ENOUGH_MS
              THEN [locator EXCEPT !.pc = "returned", !.result = midBlock,
                                   !.closestBlock = IF closer THEN midBlock ELSE @,
                                   !.closestDiff = IF closer THEN diffMs ELSE @]
              ELSE [locator EXCEPT
                      !.closestBlock = IF closer THEN midBlock ELSE @,
                      !.closestDiff = IF closer THEN diffMs ELSE @,
                      !.lowerBound = IF blockTime < locator.target THEN midBlock + 1 ELSE @,
                      !.upperBound = IF blockTime < locator.target THEN @ ELSE midBlock - 1]
        /\ UNCHANGED <<ledgerVars, detectVars, trackVars, scanRun, resolver, lockFile, instance, report, saving, gateway, store, sweep, live, canon, periodic, finale, queue, balanceCache, processor>>

\* the search ended with no block within a second: findExactBlockNearTarget
\* starts at the closest block
SearchEnd ==
    /\ locator.pc = "search"
    /\ locator.lowerBound > locator.upperBound
    /\ locator' = [locator EXCEPT
                     !.searchBlock = locator.closestBlock,
                     !.pc = IF timestamp(locator.interval, locator.closestBlock) < locator.target
                            THEN "forward" ELSE "backward"]
    /\ UNCHANGED <<ledgerVars, detectVars, trackVars, scanRun, resolver, lockFile, instance, report, saving, gateway, store, sweep, live, canon, periodic, finale, queue, balanceCache, processor>>

\* findExactBlockNearTarget: one turn of the loop that moves forward
MoveForward ==
    /\ locator.pc = "forward"
    /\ locator' =
          IF timestamp(locator.interval, locator.searchBlock) < locator.target
          THEN IF locator.searchBlock + 1 > ChainHead THEN [locator EXCEPT !.pc = "failed"]
               ELSE [locator EXCEPT !.searchBlock = @ + 1]
          ELSE [locator EXCEPT !.pc = "returned", !.result = locator.searchBlock]
    /\ UNCHANGED <<ledgerVars, detectVars, trackVars, scanRun, resolver, lockFile, instance, report, saving, gateway, store, sweep, live, canon, periodic, finale, queue, balanceCache, processor>>

\* findExactBlockNearTarget: one turn of the loop that moves backward
MoveBackward ==
    /\ locator.pc = "backward"
    /\ locator' =
          IF timestamp(locator.interval, locator.searchBlock) >= locator.target
             /\ locator.searchBlock > 0
          THEN [locator EXCEPT !.searchBlock = @ - 1]
          ELSE [locator EXCEPT !.pc = "returned", !.result = locator.searchBlock + 1]
    /\ UNCHANGED <<ledgerVars, detectVars, trackVars, scanRun, resolver, lockFile, instance, report, saving, gateway, store, sweep, live, canon, periodic, finale, queue, balanceCache, processor>>

\* the caller has the answer; the next call
LocatorTaken ==
    /\ locator.pc \in {"returned", "failed"}
    /\ locator' = [pc |-> "idle", interval |-> 0, target |-> 0, lowerBound |-> 0,
                   upperBound |-> 0, closestBlock |-> 0, closestDiff |-> Infinity,
                   searchBlock |-> 0, result |-> 0]
    /\ UNCHANGED <<ledgerVars, detectVars, trackVars, scanRun, resolver, lockFile, instance, report, saving, gateway, store, sweep, live, canon, periodic, finale, queue, balanceCache, processor>>

-----------------------------------------------------------------------------
(* cache.js and walletBalances.js: conversion and balances through the caches *)

\* The upstream services answer the same way every time they are asked: each
\* of the four is up or down for the whole run, and the chain holds ChainUsei
\* for the wallet at every height.
Upstreams == [converter : BOOLEAN, reverse : BOOLEAN, cosmos : BOOLEAN, evm : BOOLEAN]

\* the caches: the entry of the wallet in addressCache and in
\* reverseAddressCache, and the entries of balanceCache by block height
NoCaches == [address |-> FALSE, reverse |-> FALSE, balance |-> Empty]

ResolverIdle(up) ==
    [up |-> up, caches |-> NoCaches, warm |-> NoCaches, pc |-> "idle", tx |-> 0,
     at |-> NoBal, warmAt |-> NoBal, before |-> NoBal, warmBefore |-> NoBal,
     warmVotes |-> Empty, warmWallets |-> Empty, lostReverse |-> FALSE]

\* convertEvmToCosmos: the cache, then the converter API; TRUE when it answers
convertEvmToCosmos(caches, up) == caches.address \/ up.converter

\* the caches after convertEvmToCosmos
afterEvmToCosmos(caches, up) ==
    IF caches.address \/ ~up.converter THEN caches
    ELSE [caches EXCEPT !.address = TRUE, !.reverse = TRUE]

\* convertCosmosToEvm: the cache, then the reverse lookup API; the search
\* through addressCache.entries() that follows throws, Cache has no entries()
convertCosmosToEvm(caches, up) == caches.reverse \/ up.reverse

\* Cache.get of balanceCache
cacheGet(caches, blockHeight) ==
    IF blockHeight \in DOMAIN caches.balance THEN caches.balance[blockHeight] ELSE NoCache

\* what the two balance methods of getSeiBalance get from upstream
cosmosAnswerOf(up) == IF up.cosmos THEN ChainUsei ELSE Fail
evmAnswerOf(caches, up) ==
    IF convertCosmosToEvm(caches, up) /\ up.evm THEN ChainUsei * 10 ELSE Fail

\* getSeiBalance(cosmosAddress, blockHeight, ...) on these caches
resolveBalance(caches, up, blockHeight) ==
    getSeiBalance(cacheGet(caches, blockHeight), cosmosAnswerOf(up), evmAnswerOf(caches, up))

\* the caches after getSeiBalance: the address caches after a reverse lookup
\* that went to the API, balanceCache.set unless every method failed
afterBalance(caches, up, blockHeight) ==
    LET hit == cacheGet(caches, blockHeight) # NoCache
        lookedUp == ~hit /\ ~up.cosmos /\ ~caches.reverse /\ up.reverse
        c1 == IF lookedUp THEN [caches EXCEPT !.address = TRUE, !.reverse = TRUE] ELSE caches
    IN  IF hit \/ Exhausted(NoCache, cosmosAnswerOf(up), evmAnswerOf(caches, up)) THEN c1
        ELSE [c1 EXCEPT !.balance = Put(@, blockHeight, resolveBalance(caches, up, blockHeight))]

\* processBatchOfVotes, one vote: convertEvmToCosmos; when it throws the vote
\* is logged and left out
ConvertAddress(tx) ==
    /\ resolver.pc = "idle"
    /\ resolver' = [resolver EXCEPT
                      !.tx = tx,
                      !.pc = IF convertEvmToCosmos(resolver.caches, resolver.up)
                             THEN "converted" ELSE "idle",
                      !.caches = afterEvmToCosmos(@, resolver.up),
                      !.warm = afterEvmToCosmos(@, resolver.up)]
    /\ UNCHANGED <<ledgerVars, detectVars, trackVars, scanRun, locator, lockFile, instance, report, saving, gateway, store, sweep, live, canon, periodic, finale, queue, balanceCache, processor>>

\* getSeiBalance(cosmosAddress, vote.blockNumber, ...)
BalanceAtVote ==
    /\ resolver.pc = "converted"
    /\ resolver' = [resolver EXCEPT
                      !.pc = "at",
                      !.at = resolveBalance(resolver.caches, resolver.up, BlockOf(resolver.tx)),
                      !.caches = afterBalance(@, resolver.up, BlockOf(resolver.tx)),
                      !.warmAt = resolveBalance(resolver.warm, resolver.up, BlockOf(resolver.tx)),
                      !.warm = afterBalance(@, resolver.up, BlockOf(resolver.tx))]
    /\ UNCHANGED <<ledgerVars, detectVars, trackVars, scanRun, locator, lockFile, instance, report, saving, gateway, store, sweep, live, canon, periodic, finale, queue, balanceCache, processor>>

\* getSeiBalance(cosmosAddress, vote.blockNumber - 1, ...)
BalanceBeforeVote ==
    /\ resolver.pc = "at"
    /\ resolver' = [resolver EXCEPT
                      !.pc = "before",
                      !.before = resolveBalance(resolver.caches, resolver.up,
                                                BlockOf(resolver.tx) - 1),
                      !.caches = afterBalance(@, resolver.up, BlockOf(resolver.tx) - 1),
                      !.warmBefore = resolveBalance(resolver.warm, resolver.up,
                                                    BlockOf(resolver.tx) - 1),
                      !.warm = afterBalance(@, resolver.up, BlockOf(resolver.tx) - 1)]
    /\ UNCHANGED <<ledgerVars, detectVars, trackVars, scanRun, locator, lockFile, instance, report, saving, gateway, store, sweep, live, canon, periodic, finale, queue, balanceCache, processor>>

\* recordVote with the two balances
RecordResolved ==
    LET tx == resolver.tx
        r == recordVote(votes, wallets, tx, FromOf(tx), BlockOf(tx),
                        resolver.at, resolver.before, MinUnits)
        w == recordVote(resolver.warmVotes, resolver.warmWallets, tx, FromOf(tx),
                        BlockOf(tx), resolver.warmAt, resolver.warmBefore, MinUnits)
    IN  /\ resolver.pc = "before"
        /\ votes' = r.votes
        /\ wallets' = r.wallets
        /\ resolver' = [resolver EXCEPT !.pc = "idle", !.warmVotes = w.votes,
                                        !.warmWallets = w.wallets]
        /\ UNCHANGED <<ledgerRest, detectVars, trackVars, scanRun, locator, lockFile, instance, report, saving, gateway, store, sweep, live, canon, periodic, finale, queue, balanceCache, processor>>

\* Cache.has: an entry older than ttlMs is deleted; Cache.set and limitSize:
\* the oldest entries are evicted. Each cache keeps its own timestamps.
EntryLost(which, blockHeight) ==
    /\ \/ which = "address" /\ resolver.caches.address
       \/ which = "reverse" /\ resolver.caches.reverse
       \/ which = "balance" /\ blockHeight \in DOMAIN resolver.caches.balance
    /\ resolver' = [resolver EXCEPT
          !.caches.address = IF which = "address" THEN FALSE ELSE @,
          !.caches.reverse = IF which = "reverse" THEN FALSE ELSE @,
          !.caches.balance = IF which = "balance"
                             THEN [h \in DOMAIN @ \ {blockHeight} |-> @[h]] ELSE @,
          !.lostReverse = @ \/ which = "reverse"]
    /\ UNCHANGED <<ledgerVars, detectVars, trackVars, scanRun, locator, lockFile, instance, report, saving, gateway, store, sweep, live, canon, periodic, finale, queue, balanceCache, processor>>

\* clearCaches(options) as manageMemory calls it: everything, or the balances
ClearCaches(addresses, reverseAddresses, balances) ==
    /\ resolver.caches # NoCaches
    /\ resolver' = [resolver EXCEPT
          !.caches.address = IF addresses THEN FALSE ELSE @,
          !.caches.reverse = IF reverseAddresses THEN FALSE ELSE @,
          !.caches.balance = IF balances THEN Empty ELSE @,
          !.lostReverse = @ \/ (reverseAddresses /\ resolver.caches.reverse)]
    /\ UNCHANGED <<ledgerVars, detectVars, trackVars, scanRun, locator, lockFile, instance, report, saving, gateway, store, sweep, live, canon, periodic, finale, queue, balanceCache, processor>>

-----------------------------------------------------------------------------
(* index.js: the lock file and the processes *)

Instances == 1..MaxInstances

LockIdle ==
    /\ lockFile = FALSE
    /\ instance = [i \in Instances |-> "off"]

\* isLocked()
isLocked == lockFile

\* trackVotingActivity of process i: the check for the lock; with the lock
\* held it returns false
CheckLock(i) ==
    /\ instance[i] = "off"
    /\ instance' = [instance EXCEPT ![i] = IF isLocked THEN "refused" ELSE "unlocked"]
    /\ UNCHANGED lockFile
    /\ UNCHANGED <<ledgerVars, detectVars, trackVars, scanRun, locator, resolver, report, saving, gateway, store, sweep, live, canon, periodic, finale, queue, balanceCache, processor>>

\* createLock(), then the run: scan, ingestion, monitor
CreateLock(i) ==
    /\ instance[i] = "unlocked"
    /\ lockFile' = TRUE
    /\ instance' = [instance EXCEPT ![i] = "running"]
    /\ UNCHANGED <<ledgerVars, detectVars, trackVars, scanRun, locator, resolver, report, saving, gateway, store, sweep, live, canon, periodic, finale, queue, balanceCache, processor>>

\* schedulePeriodicChecks after trackVotingActivity returned false: cleanup(),
\* which removes the lock file and exits
RefusedExit(i) ==
    /\ instance[i] = "refused"
    /\ lockFile' = FALSE
    /\ instance' = [instance EXCEPT ![i] = "off"]
    /\ UNCHANGED <<ledgerVars, detectVars, trackVars, scanRun, locator, resolver, report, saving, gateway, store, sweep, live, canon, periodic, finale, queue, balanceCache, processor>>

\* trackVotingActivity fails: its catch removes the lock and returns false
RunFails(i) ==
    /\ instance[i] = "running"
    /\ lockFile' = FALSE
    /\ instance' = [instance EXCEPT ![i] = "failed"]
    /\ UNCHANGED <<ledgerVars, detectVars, trackVars, scanRun, locator, resolver, report, saving, gateway, store, sweep, live, canon, periodic, finale, queue, balanceCache, processor>>

\* schedulePeriodicChecks after the failed run: cleanup()
FailedExit(i) ==
    /\ instance[i] = "failed"
    /\ lockFile' = FALSE
    /\ instance' = [instance EXCEPT ![i] = "off"]
    /\ UNCHANGED <<ledgerVars, detectVars, trackVars, scanRun, locator, resolver, report, saving, gateway, store, sweep, live, canon, periodic, finale, queue, balanceCache, processor>>

\* SIGINT or SIGTERM on a running process: cleanup()
Shutdown(i) ==
    /\ instance[i] = "running"
    /\ lockFile' = FALSE
    /\ instance' = [instance EXCEPT ![i] = "off"]
    /\ UNCHANGED <<ledgerVars, detectVars, trackVars, scanRun, locator, resolver, report, saving, gateway, store, sweep, live, canon, periodic, finale, queue, balanceCache, processor>>

-----------------------------------------------------------------------------
(* index.js generateFinalReport: the height of the period-end lookup *)

EndBlock == 100                         \* the last block before VOTING_END_DATE

\* the wallet's balance over the heights: one level before changeAt, the other
\* from changeAt on
BalanceProfiles == [changeAt : (EndBlock + 1)..(EndBlock + 3), above : BOOLEAN]

balanceAtHeight(profile, h) ==
    IF (h < profile.changeAt) = profile.above THEN 120 * SubUnit ELSE 80 * SubUnit

ReportIdle(profile) ==
    [head |-> EndBlock, profile |-> profile, pc |-> "waiting",
     finalBlockHeight |-> 0, finalBalance |-> NoBal, finalBalanceValid |-> Null]

\* the chain produces a block
BlockProduced ==
    /\ report.pc = "waiting"
    /\ report.head < EndBlock + MaxDelay
    /\ report' = [report EXCEPT !.head = @ + 1]
    /\ UNCHANGED <<ledgerVars, detectVars, trackVars, scanRun, locator, resolver, lockFile, instance, saving, gateway, store, sweep, live, canon, periodic, finale, queue, balanceCache, processor>>

\* generateFinalReport: currentBlock = provider.getBlockNumber(), then
\* checkFinalBalances(currentBlock, ...) on the wallet
GenerateFinalReport ==
    LET finalBlockHeight == report.head
        formattedBalance == formatSeiBalance(balanceAtHeight(report.profile, finalBlockHeight))
    IN  /\ report.pc = "waiting"
        /\ report' = [report EXCEPT !.pc = "done",
                                    !.finalBlockHeight = finalBlockHeight,
                                    !.finalBalance = formattedBalance,
                                    !.finalBalanceValid = Bool3(formattedBalance >= MinUnits)]
        /\ UNCHANGED <<ledgerVars, detectVars, trackVars, scanRun, locator, resolver, lockFile, instance, saving, gateway, store, sweep, live, canon, periodic, finale, queue, balanceCache, processor>>

\* the next run on the same chain and wallet
ReportTaken ==
    /\ report.pc = "done"
    /\ report' = ReportIdle(report.profile)
    /\ UNCHANGED <<ledgerVars, detectVars, trackVars, scanRun, locator, resolver, lockFile, instance, saving, gateway, store, sweep, live, canon, periodic, finale, queue, balanceCache, processor>>

-----------------------------------------------------------------------------
(* walletBalances.js recordVote, BatchProcessor.saveData: the two file writes *)

SavingIdle == [pc |-> "idle", votes |-> Empty, wallets |-> Empty]

SaveBalances == {MinUnits - 6, MinUnits - 5}

\* recordVote up to its two writes: load the files, skip a known hash, build the
\* two tables
RecordVoteBuild(tx, at, before) ==
    /\ saving.pc = "idle"
    /\ tx \notin DOMAIN votes
    /\ LET r == recordVote(votes, wallets, tx, FromOf(tx), BlockOf(tx), at, before, MinUnits)
       IN  saving' = [pc |-> "saveWalletData", votes |-> r.votes, wallets |-> r.wallets]
    /\ UNCHANGED <<ledgerVars, detectVars, trackVars, scanRun, locator, resolver, lockFile, instance, report, gateway, store, sweep, live, canon, periodic, finale, queue, balanceCache, processor>>

\* saveWalletData(wallets, walletsFile)
SaveWalletData ==
    /\ saving.pc = "saveWalletData"
    /\ wallets' = saving.wallets
    /\ saving' = [saving EXCEPT !.pc = "saveVotingData"]
    /\ UNCHANGED <<votes, ledgerRest, detectVars, trackVars, scanRun, locator, resolver, lockFile, instance, report, gateway, store, sweep, live, canon, periodic, finale, queue, balanceCache, processor>>

\* saveVotingData(votes, votesFile)
SaveVotingData ==
    /\ saving.pc = "saveVotingData"
    /\ votes' = saving.votes
    /\ saving' = SavingIdle
    /\ UNCHANGED <<wallets, ledgerRest, detectVars, trackVars, scanRun, locator, resolver, lockFile, instance, report, gateway, store, sweep, live, canon, periodic, finale, queue, balanceCache, processor>>

\* the process is killed during recordVote; the files stay as they are
Crash ==
    /\ saving.pc # "idle"
    /\ saving' = SavingIdle
    /\ UNCHANGED <<ledgerVars, detectVars, trackVars, scanRun, locator, resolver, lockFile, instance, report, gateway, store, sweep, live, canon, periodic, finale, queue, balanceCache, processor>>

-----------------------------------------------------------------------------
(* utils.js retry; walletBalances.js and contractReader.js: primary and fallback *)

RETRY_COUNT == 3                \* retry(fn, 3, 1000)

\* the calls: three run inside retry, makeRpcRequestWithTimeout does not; all
\* but convertEvmToCosmos have a fallback endpoint
GatewayOps == {"getCosmosBalance", "getEvmBalance", "convertEvmToCosmos", "makeRpcRequestWithTimeout"}
maxRetriesOf(op) == IF op = "makeRpcRequestWithTimeout" THEN 0 ELSE RETRY_COUNT
hasFallback(op) == op # "convertEvmToCosmos"

\* what a contacted endpoint does
Outcomes == {"ok", "timeout", "error"}

GatewayIdle == [op |-> "none", pc |-> "idle", retries |-> 0, invocations |-> 0, log |-> <<>>]

\* retry, the catch of one failed invocation of fn
afterFailedInvocation(g) ==
    IF g.retries + 1 > maxRetriesOf(g.op)
    THEN [g EXCEPT !.retries = @ + 1, !.pc = "failed"]
    ELSE [g EXCEPT !.retries = @ + 1, !.pc = "primary", !.invocations = @ + 1]

\* the call is made: retry invokes fn for the first time
GatewayCall(op) ==
    /\ gateway.pc = "idle"
    /\ gateway' = [op |-> op, pc |-> "primary", retries |-> 0, invocations |-> 1, log |-> <<>>]
    /\ UNCHANGED <<ledgerVars, detectVars, trackVars, scanRun, locator, resolver, lockFile, instance, report, saving, store, sweep, live, canon, periodic, finale, queue, balanceCache, processor>>

\* fn: the request to the primary endpoint
ContactPrimary(outcome) ==
    LET g == [gateway EXCEPT !.log = Append(@, <<"primary", outcome>>)]
    IN  /\ gateway.pc = "primary"
        /\ gateway' = IF outcome = "ok" THEN [g EXCEPT !.pc = "returned"]
                      ELSE IF hasFallback(g.op) THEN [g EXCEPT !.pc = "fallback"]
                      ELSE afterFailedInvocation(g)
        /\ UNCHANGED <<ledgerVars, detectVars, trackVars, scanRun, locator, resolver, lockFile, instance, report, saving, store, sweep, live, canon, periodic, finale, queue, balanceCache, processor>>

\* fn: the catch of the primary request, the request to the fallback endpoint
ContactFallback(outcome) ==
    LET g == [gateway EXCEPT !.log = Append(@, <<"fallback", outcome>>)]
    IN  /\ gateway.pc = "fallback"
        /\ gateway' = IF outcome = "ok" THEN [g EXCEPT !.pc = "returned"]
                      ELSE afterFailedInvocation(g)
        /\ UNCHANGED <<ledgerVars, detectVars, trackVars, scanRun, locator, resolver, lockFile, instance, report, saving, store, sweep, live, canon, periodic, finale, queue, balanceCache, processor>>

\* the caller has the result or the error; the next call
GatewayTaken ==
    /\ gateway.pc \in {"returned", "failed"}
    /\ gateway' = GatewayIdle
    /\ UNCHANGED <<ledgerVars, detectVars, trackVars, scanRun, locator, resolver, lockFile, instance, report, saving, store, sweep, live, canon, periodic, finale, queue, balanceCache, processor>>

-----------------------------------------------------------------------------
(* cache.js: class Cache *)

CacheMaxSize == 6               \* maxSize of the model's cache
CacheTtl == 0                   \* ttlMs, in ticks of the clock
CacheKeys == 1..CacheMaxSize

\* the store: cache is the set of keys of the Map of values, order the key
\* order of the timestamps Map (a key set again keeps its place), ts the
\* timestamp of each key, maxSize the field of that name, limit the argument
\* of the last call of limitSize (0: none yet)
StoreIdle ==
    [cache |-> {}, order |-> <<>>, ts |-> Empty, now |-> 0, maxSize |-> CacheMaxSize,
     limit |-> 0, last |-> [op |-> "none", key |-> 0, found |-> FALSE, evicted |-> {}]]

\* this.cache.delete(key); this.timestamps.delete(key) for the keys of D
deleteKeys(st, D) ==
    [st EXCEPT !.cache = @ \ D,
               !.order = SelectSeq(@, LAMBDA k : k \notin D),
               !.ts = [k \in DOMAIN st.ts \ D |-> st.ts[k]]]

\* expired mutated: entries never expire
expiredNever(setAt, now) == now - setAt > CacheTtl + MaxClock

\* Date.now() - timestamp > this.ttlMs
expired(setAt, now) == now - setAt > CacheTtl

\* has(key): the answer and the store after it
has(st, key) ==
    IF key \notin st.cache THEN [found |-> FALSE, st |-> st]
    ELSE IF expired(st.ts[key], st.now) THEN [found |-> FALSE, st |-> deleteKeys(st, {key})]
    ELSE [found |-> TRUE, st |-> st]

\* evictCount mutated: Math.floor
evictCountFloor(maxSize) == (maxSize * 2) \div 10

\* Math.ceil(this.maxSize * 0.2)
evictCount(maxSize) == (maxSize * 2 + 9) \div 10

\* position of a key in the timestamps Map
PosOf(st, key) == CHOOSE i \in 1..Len(st.order) : st.order[i] = key

\* [...timestamps.entries()].sort((a, b) => a[1] - b[1]): a comes before b
\* (the sort is stable)
sortsBefore(st, a, b) ==
    \/ st.ts[a] < st.ts[b]
    \/ st.ts[a] = st.ts[b] /\ PosOf(st, a) < PosOf(st, b)

\* oldest mutated: the slice is taken from the other end
newest(st, n) ==
    {k \in DOMAIN st.ts : Cardinality({j \in DOMAIN st.ts : sortsBefore(st, k, j)}) < n}

\* .slice(0, n) of the sorted entries: the keys with fewer than n keys before them
oldest(st, n) ==
    {k \in DOMAIN st.ts : Cardinality({j \in DOMAIN st.ts : sortsBefore(st, j, k)}) < n}

\* set(key, value): the keys it evicts
evictedBySet(st) ==
    IF Cardinality(st.cache) >= st.maxSize THEN oldest(st, evictCount(st.maxSize)) ELSE {}

\* set(key, value): the store after it
cacheSet(st, key) ==
    LET st1 == deleteKeys(st, evictedBySet(st))
    IN  [st1 EXCEPT !.cache = @ \cup {key},
                    !.order = IF key \in DOMAIN st1.ts THEN @ ELSE Append(@, key),
                    !.ts = Put(@, key, st.now),
                    !.last = [op |-> "set", key |-> key, found |-> FALSE,
                              evicted |-> evictedBySet(st)]]

\* clear(): both Maps are emptied
cacheClear(st) ==
    [st EXCEPT !.cache = {}, !.order = <<>>, !.ts = Empty,
               !.last = [op |-> "clear", key |-> 0, found |-> FALSE, evicted |-> {}]]

\* limitSize(newMax): nothing, maxSize included, when the cache holds no more
\* than newMax entries; else the oldest entries go and maxSize is newMax
limitSize(st, newMax) ==
    IF Cardinality(st.cache) <= newMax THEN st
    ELSE [deleteKeys(st, oldest(st, Cardinality(st.cache) - newMax)) EXCEPT !.maxSize = newMax]

\* get(key)
CacheGet(key) ==
    LET r == has(store, key)
    IN  /\ store' = [r.st EXCEPT !.last = [op |-> "get", key |-> key, found |-> r.found,
                                          evicted |-> {}]]
        /\ UNCHANGED <<ledgerVars, detectVars, trackVars, scanRun, locator, resolver, lockFile, instance, report, saving, gateway, sweep, live, canon, periodic, finale, queue, balanceCache, processor>>

\* set(key, value)
CacheSet(key) ==
    /\ store' = cacheSet(store, key)
    /\ UNCHANGED <<ledgerVars, detectVars, trackVars, scanRun, locator, resolver, lockFile, instance, report, saving, gateway, sweep, live, canon, periodic, finale, queue, balanceCache, processor>>

\* clear()
CacheClear ==
    /\ store.cache # {}
    /\ store' = cacheClear(store)
    /\ UNCHANGED <<ledgerVars, detectVars, trackVars, scanRun, locator, resolver, lockFile, instance, report, saving, gateway, sweep, live, canon, periodic, finale, queue, balanceCache, processor>>

\* limitSize(newMax), as limitCacheSizes calls it
LimitSize(newMax) ==
    /\ store' = [limitSize(store, newMax) EXCEPT
                    !.limit = newMax,
                    !.last = [op |-> "limitSize", key |-> 0, found |-> FALSE,
                              evicted |-> store.cache \ limitSize(store, newMax).cache]]
    /\ UNCHANGED <<ledgerVars, detectVars, trackVars, scanRun, locator, resolver, lockFile, instance, report, saving, gateway, sweep, live, canon, periodic, finale, queue, balanceCache, processor>>

\* Date.now() advances
ClockTick ==
    /\ store.now < MaxClock
    /\ store' = [store EXCEPT !.now = @ + 1]
    /\ UNCHANGED <<ledgerVars, detectVars, trackVars, scanRun, locator, resolver, lockFile, instance, report, saving, gateway, sweep, live, canon, periodic, finale, queue, balanceCache, processor>>

-----------------------------------------------------------------------------
(* blockScanner.js: scanBlockRangeForVotes when fetches fail *)

SUB_BATCH_SIZE == 10

\* the blocks getBlockWithTransactions can fail on (both of its attempts): one
\* next to the first vote, one in a later sub-batch of the same batch, one in
\* the second batch
FailingBlocks == {BlockOf(1) + 1, BlockOf(1) + 28, BlockOf(2) + 8}

\* the ends of the scanned range
SweepTos == {BlockOf(2) + 8, BlockOf(2) + 98}

SweepIdle ==
    [pc |-> "idle", to |-> 0, badBlocks |-> {}, badTx |-> {}, next |-> 0, at |-> Empty,
     subBatchResults |-> Empty, results |-> Empty, votes |-> <<>>, notified |-> {}]

\* the batches of a group start at their first sub-batch, with no result yet
startBatches(starts) == [b \in starts |-> b]
noResults(starts) == [b \in starts |-> <<>>]

\* the end of the sub-batch that starts at blockNum in the batch that starts at b
subBatchEnd(blockNum, b, to) == Min2(blockNum + SUB_BATCH_SIZE - 1, batchEnd(b, to))

\* processBlockRange(fromBlock, toBlock, ...): the votes of the blocks, without
\* the transactions whose receipt or vote check fails (they are logged and skipped)
processBlockRange(fromBlock, toBlock, badTx) ==
    SelectSeq(TxSeq, LAMBDA tx :
        /\ fromBlock <= BlockOf(tx) /\ BlockOf(tx) <= toBlock
        /\ tx \notin badTx
        /\ processBlockRangeEmits(ShapeOf(tx)))

\* scanBlockRangeForVotes(fromBlock, toBlock, ...) on a chain where the blocks of
\* badBlocks cannot be fetched and the transactions of badTx cannot be checked
SweepCall(toBlock, badBlocks, badTx) ==
    LET group == currentBatches(StartBlock, toBlock, MAX_CONCURRENT_BATCHES)
    IN  /\ sweep.pc = "idle"
        /\ sweep' = [pc |-> "running", to |-> toBlock, badBlocks |-> badBlocks, badTx |-> badTx,
                     next |-> StartBlock, at |-> startBatches(group),
                     subBatchResults |-> noResults(group), results |-> Empty,
                     votes |-> <<>>, notified |-> {}]
        /\ UNCHANGED <<ledgerVars, detectVars, trackVars, scanRun, locator, resolver, lockFile, instance, report, saving, gateway, store, live, canon, periodic, finale, queue, balanceCache, processor>>

\* a batch in flight runs its next sub-batch: Promise.all over the blocks
\* resolves, the votes are pushed and onVoteFound is called for each; after
\* the last sub-batch the batch resolves with subBatchResults
SubBatchRuns(b) ==
    LET blockNum == sweep.at[b]
        last == subBatchEnd(blockNum, b, sweep.to)
        subBatchVotes == processBlockRange(blockNum, last, sweep.badTx)
        rest == [c \in DOMAIN sweep.at \ {b} |-> sweep.at[c]]
    IN  /\ sweep.pc = "running"
        /\ b \in DOMAIN sweep.at
        /\ (blockNum..last) \cap sweep.badBlocks = {}
        /\ sweep' = [sweep EXCEPT
                       !.subBatchResults[b] = @ \o subBatchVotes,
                       !.notified = @ \cup Elems(subBatchVotes),
                       !.at = IF last = batchEnd(b, sweep.to) THEN rest
                              ELSE [sweep.at EXCEPT ![b] = last + 1],
                       !.results = IF last = batchEnd(b, sweep.to)
                                   THEN Put(@, b, sweep.subBatchResults[b] \o subBatchVotes)
                                   ELSE @]
        /\ UNCHANGED <<ledgerVars, detectVars, trackVars, scanRun, locator, resolver, lockFile, instance, report, saving, gateway, store, live, canon, periodic, finale, queue, balanceCache, processor>>

\* a block of the next sub-batch cannot be fetched: getBlockWithTransactions
\* throws, Promise.all rejects, processBlockRange throws, and the catch of the
\* batch returns []
BatchFails(b) ==
    LET blockNum == sweep.at[b]
        last == subBatchEnd(blockNum, b, sweep.to)
    IN  /\ sweep.pc = "running"
        /\ b \in DOMAIN sweep.at
        /\ (blockNum..last) \cap sweep.badBlocks # {}
        /\ sweep' = [sweep EXCEPT
                       !.at = [c \in DOMAIN sweep.at \ {b} |-> sweep.at[c]],
                       !.results = Put(@, b, <<>>)]
        /\ UNCHANGED <<ledgerVars, detectVars, trackVars, scanRun, locator, resolver, lockFile, instance, report, saving, gateway, store, live, canon, periodic, finale, queue, balanceCache, processor>>

\* Promise.all(batchPromises) resolves: the results go into the votes Map, the
\* next group starts or the call returns
SweepGroupResolves ==
    LET group == currentBatches(sweep.next, sweep.to, MAX_CONCURRENT_BATCHES)
        next == sweep.next + MAX_CONCURRENT_BATCHES * BATCH_SIZE
        following == IF next > sweep.to THEN {}
                     ELSE currentBatches(next, sweep.to, MAX_CONCURRENT_BATCHES)
    IN  /\ sweep.pc = "running"
        /\ DOMAIN sweep.at = {}
        /\ sweep' = [sweep EXCEPT
                       !.votes = mergeResults(@, sweep.results, group),
                       !.results = Empty,
                       !.next = next,
                       !.at = startBatches(following),
                       !.subBatchResults = noResults(following),
                       !.pc = IF next > sweep.to THEN "returned" ELSE "running"]
        /\ UNCHANGED <<ledgerVars, detectVars, trackVars, scanRun, locator, resolver, lockFile, instance, report, saving, gateway, store, live, canon, periodic, finale, queue, balanceCache, processor>>

\* the caller has the votes; the next call
SweepTaken ==
    /\ sweep.pc = "returned"
    /\ sweep' = SweepIdle
    /\ UNCHANGED <<ledgerVars, detectVars, trackVars, scanRun, locator, resolver, lockFile, instance, report, saving, gateway, store, live, canon, periodic, finale, queue, balanceCache, processor>>

-----------------------------------------------------------------------------
(* realTimeMonitor.js: monitorForVotes and its controller *)

MAX_RECONNECT_ATTEMPTS == 10
POLLING_BATCH_SIZE == 20

\* the monitor after start() has begun to connect the WebSocket; fromOf gives
\* the first block of the range each handler in flight scans; stopped,
\* begunAtStop, votesAfterStop, lateStarts, ignored and scans (how often each
\* block has been scanned by a handler that ended, counted up to 2) are histories
LiveIdle ==
    [isRunning |-> TRUE, currentBlock |-> 0, reconnectAttempts |-> 0,
     conn |-> "connecting", origin |-> "start", listening |-> FALSE, pollInterval |-> FALSE,
     latest |-> 0, inFlight |-> {}, fromOf |-> Empty,
     scans |-> [b \in 1..MaxLatest |-> 0],
     stopped |-> FALSE, begunAtStop |-> {}, votesAfterStop |-> {}, lateStarts |-> {},
     ignored |-> FALSE]

\* something is started: after stop() it is recorded
started(l, what) == IF l.stopped THEN [l EXCEPT !.lateStarts = @ \cup {what}] ELSE l

\* a callback returns at its isRunning guard
returnsAtGuard(l) == IF l.stopped THEN [l EXCEPT !.ignored = TRUE] ELSE l

\* the block handler mutated: it does not look at isRunning
blockHandlerProceedsAlways(l, blockNumber) == blockNumber > l.currentBlock

\* wsProvider.on('block'): if (!isRunning) return; if (blockNumber <= currentBlock) return
blockHandlerProceeds(l, blockNumber) == l.isRunning /\ blockNumber > l.currentBlock

\* the poll callback: if (!isRunning) return; if (latestBlock <= currentBlock) return
pollProceeds(l) == l.isRunning /\ l.latest > l.currentBlock

\* a handler or cycle starts on the blocks currentBlock + 1 .. toBlock: one
\* block read from the WebSocket provider, or scanBlockRangeForVotes
begins(l, toBlock) ==
    [l EXCEPT !.inFlight = @ \cup {toBlock},
              !.fromOf = IF toBlock \in l.inFlight THEN @ ELSE Put(@, toBlock, l.currentBlock + 1)]

\* a handler or cycle is over
leaves(l, toBlock) ==
    [l EXCEPT !.inFlight = @ \ {toBlock},
              !.fromOf = [b \in DOMAIN l.fromOf \ {toBlock} |-> l.fromOf[b]]]

\* the blocks of a handler that ended have been scanned once more
scanned(l, toBlock) ==
    [l EXCEPT !.scans = [b \in 1..MaxLatest |->
                            IF l.fromOf[toBlock] <= b /\ b <= toBlock THEN Min2(@[b] + 1, 2)
                            ELSE @[b]]]

\* the chain produces a block
NewBlock ==
    /\ live.latest < MaxLatest
    /\ live' = [live EXCEPT !.latest = @ + 1]
    /\ UNCHANGED <<ledgerVars, detectVars, trackVars, scanRun, locator, resolver, lockFile, instance, report, saving, gateway, store, sweep, canon, periodic, finale, queue, balanceCache, processor>>
\* createWebSocketProvider resolves: wsProvider is set and the block, error and
\* close listeners are registered
ConnectSucceeds ==
    /\ live.conn = "connecting"
    /\ live' = [live EXCEPT !.conn = "open", !.listening = TRUE]
    /\ UNCHANGED <<ledgerVars, detectVars, trackVars, scanRun, locator, resolver, lockFile, instance, report, saving, gateway, store, sweep, canon, periodic, finale, queue, balanceCache, processor>>
\* createWebSocketProvider throws: startWebSocketMonitoring returns false; start()
\* goes on to startPollingMonitoring, the reconnect timer's .catch never runs
ConnectFails ==
    /\ live.conn = "connecting"
    /\ live' = [live EXCEPT !.conn = "down",
                            !.pollInterval = IF live.origin = "start" THEN TRUE ELSE @]
    /\ UNCHANGED <<ledgerVars, detectVars, trackVars, scanRun, locator, resolver, lockFile, instance, report, saving, gateway, store, sweep, canon, periodic, finale, queue, balanceCache, processor>>
\* a block event reaches the listener: the handler starts on the block (a single
\* block or the range up to it)
BlockEvent(blockNumber) ==
    /\ live.listening
    /\ blockNumber <= live.latest
    /\ live' = IF blockHandlerProceeds(live, blockNumber)
               THEN begins(started(live, "scan"), blockNumber)
               ELSE returnsAtGuard(live)
    /\ UNCHANGED <<ledgerVars, detectVars, trackVars, scanRun, locator, resolver, lockFile, instance, report, saving, gateway, store, sweep, canon, periodic, finale, queue, balanceCache, processor>>
\* the poll timer fires: the cycle starts on the blocks up to toBlock
PollTick ==
    LET toBlock == Min2(live.latest, live.currentBlock + POLLING_BATCH_SIZE)
    IN  /\ live.pollInterval
        /\ live' = IF pollProceeds(live)
                   THEN begins(started(live, "poll"), toBlock)
                   ELSE returnsAtGuard(live)
        /\ UNCHANGED <<ledgerVars, detectVars, trackVars, scanRun, locator, resolver, lockFile, instance, report, saving, gateway, store, sweep, canon, periodic, finale, queue, balanceCache, processor>>
\* a handler or cycle in flight finds a vote: onVoteFound(vote)
VoteFound(blockNumber) ==
    /\ blockNumber \in live.inFlight
    /\ live' = IF live.stopped THEN [live EXCEPT !.votesAfterStop = @ \cup {blockNumber}]
               ELSE live
    /\ UNCHANGED <<ledgerVars, detectVars, trackVars, scanRun, locator, resolver, lockFile, instance, report, saving, gateway, store, sweep, canon, periodic, finale, queue, balanceCache, processor>>
\* a handler or cycle ends: currentBlock = blockNumber, reconnectAttempts = 0
HandlerEnds(blockNumber) ==
    /\ blockNumber \in live.inFlight
    /\ live' = [leaves(scanned(live, blockNumber), blockNumber) EXCEPT
                    !.currentBlock = blockNumber,
                    !.reconnectAttempts = 0]
    /\ UNCHANGED <<ledgerVars, detectVars, trackVars, scanRun, locator, resolver, lockFile, instance, report, saving, gateway, store, sweep, canon, periodic, finale, queue, balanceCache, processor>>
\* a handler or cycle throws (after stop: wsProvider is null): the catch logs it
HandlerFails(blockNumber) ==
    /\ blockNumber \in live.inFlight
    /\ live' = leaves(live, blockNumber)
    /\ UNCHANGED <<ledgerVars, detectVars, trackVars, scanRun, locator, resolver, lockFile, instance, report, saving, gateway, store, sweep, canon, periodic, finale, queue, balanceCache, processor>>
\* the WebSocket closes: the listeners are removed; if (isRunning) a reconnect
\* is scheduled, or polling starts once the attempts are used up
ConnectionCloses ==
    LET attempts == live.reconnectAttempts + 1
    IN  /\ live.conn = "open"
        /\ live' = IF ~live.isRunning
                   THEN [returnsAtGuard(live) EXCEPT !.conn = "down", !.listening = FALSE]
                   ELSE IF attempts <= MAX_RECONNECT_ATTEMPTS
                   THEN [live EXCEPT !.conn = "waiting", !.listening = FALSE,
                                     !.reconnectAttempts = attempts]
                   ELSE [live EXCEPT !.conn = "down", !.listening = FALSE,
                                     !.reconnectAttempts = attempts, !.pollInterval = TRUE]
        /\ UNCHANGED <<ledgerVars, detectVars, trackVars, scanRun, locator, resolver, lockFile, instance, report, saving, gateway, store, sweep, canon, periodic, finale, queue, balanceCache, processor>>
\* the reconnect timer fires: if (isRunning) startWebSocketMonitoring()
ReconnectTimer ==
    /\ live.conn = "waiting"
    /\ live' = IF live.isRunning
               THEN [started(live, "reconnect") EXCEPT !.conn = "connecting",
                                                        !.origin = "reconnect"]
               ELSE [returnsAtGuard(live) EXCEPT !.conn = "down"]
    /\ UNCHANGED <<ledgerVars, detectVars, trackVars, scanRun, locator, resolver, lockFile, instance, report, saving, gateway, store, sweep, canon, periodic, finale, queue, balanceCache, processor>>
\* stop(): cleanup() clears isRunning, removes the listeners of wsProvider and
\* destroys it, clears pollInterval
Stop ==
    /\ ~live.stopped
    /\ live' = [live EXCEPT !.isRunning = FALSE,
                            !.listening = FALSE,
                            !.conn = IF @ = "open" THEN "down" ELSE @,
                            !.pollInterval = FALSE,
                            !.stopped = TRUE,
                            !.begunAtStop = live.inFlight]
    /\ UNCHANGED <<ledgerVars, detectVars, trackVars, scanRun, locator, resolver, lockFile, instance, report, saving, gateway, store, sweep, canon, periodic, finale, queue, balanceCache, processor>>
-----------------------------------------------------------------------------
(* utils.js: formatSeiBalance on the result of formatSeiBalance *)

\* the amounts: around zero and around the minimum, in model units (one digit
\* more than the six that are kept)
CanonAmounts == 0..49 \cup (MinUnits - 15)..(MinUnits + 15)

CanonIdle == [amount |-> 0, once |-> NoBal, twice |-> NoBal]

\* Number(amount.toFixed(6)) on the double that stands for the decimal amount:
\* when the seventh digit is a 5 and nothing follows, the double may lie below
\* the decimal, and toFixed then rounds down
numberToFixed6(amount, below) ==
    IF amount % 10 = 5 /\ below THEN (amount \div 10) * 10 ELSE formatSeiBalance(amount)

\* formatSeiBalance(x)
FormatOnce(below) ==
    /\ canon.once = NoBal
    /\ canon' = [canon EXCEPT !.once = numberToFixed6(canon.amount, below)]
    /\ UNCHANGED <<ledgerVars, detectVars, trackVars, scanRun, locator, resolver, lockFile, instance, report, saving, gateway, store, sweep, live, periodic, finale, queue, balanceCache, processor>>
\* formatSeiBalance(formatSeiBalance(x))
FormatTwice(below) ==
    /\ canon.once # NoBal
    /\ canon.twice = NoBal
    /\ canon' = [canon EXCEPT !.twice = numberToFixed6(canon.once, below)]
    /\ UNCHANGED <<ledgerVars, detectVars, trackVars, scanRun, locator, resolver, lockFile, instance, report, saving, gateway, store, sweep, live, periodic, finale, queue, balanceCache, processor>>
-----------------------------------------------------------------------------
(* index.js: schedulePeriodicChecks and the timer it sets *)

PassOutcomes == {"ok", "scanFails", "throws"}

\* the process at its start: schedulePeriodicChecks is about to run for the
\* first time, no lock file, no checkpoint file; checks and last are histories
PeriodicIdle ==
    [timer |-> TRUE, isRunning |-> TRUE, open |-> TRUE, lock |-> FALSE, lastBlock |-> 0,
     head |-> StartBlock, checks |-> 0,
     last |-> [open |-> FALSE, running |-> FALSE, performed |-> FALSE, saved |-> 0,
               fromBlock |-> 0]]

\* removeLock()
removeLock(p) == [p EXCEPT !.lock = FALSE]

\* cleanup(): isRunning = false, the listener is stopped, removeLock()
cleanup(p) == removeLock([p EXCEPT !.isRunning = FALSE])

\* the block the pass starts from: loadLastProcessedBlock(), or findStartBlock
\* when there is no checkpoint
startOfPass(p) == IF p.lastBlock = 0 THEN StartBlock ELSE p.lastBlock

\* trackVotingActivity: with the lock file present it returns false; else
\* createLock(), the start block, the historical pass up to the head with
\* saveLastProcessedBlock(currentBlock), the listener
trackVotingActivity(p, outcome) ==
    LET fromBlock == startOfPass(p)
    IN  IF p.lock THEN p
        ELSE IF outcome = "throws" THEN removeLock([p EXCEPT !.lastBlock = fromBlock])
        ELSE IF outcome = "scanFails" \/ fromBlock >= p.head
        THEN [p EXCEPT !.lock = TRUE, !.lastBlock = fromBlock]
        ELSE [p EXCEPT !.lock = TRUE, !.lastBlock = p.head]

\* schedulePeriodicChecks runs, at the start or from its timer:
\* trackVotingActivity, then the next timer if now < VOTING_END_DATE and
\* isRunning, else cleanup()
ScheduledCheck(outcome) ==
    LET p == periodic
        q == trackVotingActivity(p, outcome)
        after == IF p.open /\ p.isRunning THEN q ELSE [cleanup(q) EXCEPT !.timer = FALSE]
    IN  /\ p.timer
        /\ p.checks < MaxChecks
        /\ periodic' = [after EXCEPT
                          !.checks = @ + 1,
                          !.last = [open |-> p.open, running |-> p.isRunning,
                                    performed |-> ~p.lock,
                                    saved |-> p.lastBlock,
                                    fromBlock |-> startOfPass(p)]]
        /\ UNCHANGED <<ledgerVars, detectVars, trackVars, scanRun, locator, resolver, lockFile, instance, report, saving, gateway, store, sweep, live, canon, finale, queue, balanceCache, processor>>
\* the chain produces a block
PeriodicBlock ==
    /\ periodic.head < StartBlock + MaxChecks
    /\ periodic' = [periodic EXCEPT !.head = @ + 1]
    /\ UNCHANGED <<ledgerVars, detectVars, trackVars, scanRun, locator, resolver, lockFile, instance, report, saving, gateway, store, sweep, live, canon, finale, queue, balanceCache, processor>>
\* the time reaches VOTING_END_DATE
VotingEnds ==
    /\ periodic.open
    /\ periodic' = [periodic EXCEPT !.open = FALSE]
    /\ UNCHANGED <<ledgerVars, detectVars, trackVars, scanRun, locator, resolver, lockFile, instance, report, saving, gateway, store, sweep, live, canon, finale, queue, balanceCache, processor>>
\* SIGINT or SIGTERM: cleanup()
Signal ==
    /\ periodic.isRunning
    /\ periodic' = cleanup(periodic)
    /\ UNCHANGED <<ledgerVars, detectVars, trackVars, scanRun, locator, resolver, lockFile, instance, report, saving, gateway, store, sweep, live, canon, finale, queue, balanceCache, processor>>
-----------------------------------------------------------------------------
(* index.js: what the program does when the voting period ends *)

\* the two schedulePeriodicChecks of index.js: the one that sets a 12-hour
\* timer (471-498) and the one that runs once (953-978)
Variants == {"timer", "once"}

\* the first block whose time is not before VOTING_END_DATE
EndHeights == 1..MaxHead

\* the program before schedulePeriodicChecks runs; endedRunning and signalled
\* are histories
FinaleIdle ==
    [pc |-> "off", variant |-> "once", endAt |-> 1, head |-> 0, currentBlock |-> 0,
     monitoring |-> FALSE, lock |-> FALSE, timer |-> FALSE, reported |-> FALSE,
     endedRunning |-> FALSE, signalled |-> FALSE]

\* now >= VOTING_END_DATE, the clock read off the head block
votingOver(f) == f.head >= f.endAt

\* generateFinalReport(): the listener is stopped, checkFinalBalances, the reports
generateFinalReport(f) == [f EXCEPT !.monitoring = FALSE, !.reported = TRUE]

\* cleanup(): the listener is stopped, the lock removed; the timer variant
\* leaves its timer unset
processEnds(f) ==
    [f EXCEPT !.pc = "exited", !.monitoring = FALSE, !.lock = FALSE, !.timer = FALSE]

\* trackVotingActivity of the timer variant (284-395): refused by the lock
\* file; else the lock, the pass (which may throw: removeLock), the listener,
\* and the final report if the period is over
trackTimerVariant(f, passThrows) ==
    IF f.lock THEN f
    ELSE IF passThrows THEN f
    ELSE LET g == [f EXCEPT !.lock = TRUE, !.monitoring = TRUE, !.currentBlock = f.head]
         IN  IF votingOver(f) THEN generateFinalReport(g) ELSE g

\* schedulePeriodicChecks of the timer variant (471-498): the pass, then the
\* next timer if now < VOTING_END_DATE, else cleanup()
checkTimerVariant(f, passThrows) ==
    LET g == trackTimerVariant(f, passThrows)
    IN  IF ~votingOver(f) THEN [g EXCEPT !.pc = "running", !.timer = TRUE]
        ELSE processEnds(g)

\* schedulePeriodicChecks of the variant that runs once (953-978): if the pass
\* did not start monitoring, cleanup(); if the period is already over, the
\* final report and cleanup(); else it returns and the monitor goes on
checkOnce(f, passThrows) ==
    IF passThrows THEN processEnds(f)
    ELSE LET g == [f EXCEPT !.lock = TRUE, !.monitoring = TRUE, !.currentBlock = f.head]
         IN  IF votingOver(f) THEN processEnds(generateFinalReport(g))
             ELSE [g EXCEPT !.pc = "running"]

\* the program is started
FinaleStart(variant, endAt, passThrows) ==
    LET f == [finale EXCEPT !.variant = variant, !.endAt = endAt]
    IN  /\ finale.pc = "off"
        /\ finale' = IF variant = "timer" THEN checkTimerVariant(f, passThrows)
                     ELSE checkOnce(f, passThrows)
        /\ UNCHANGED <<ledgerVars, detectVars, trackVars, scanRun, locator, resolver, lockFile, instance, report, saving, gateway, store, sweep, live, canon, periodic, queue, balanceCache, processor>>

\* the chain produces a block; with it the time may reach VOTING_END_DATE
FinaleBlock ==
    /\ finale.head < MaxHead
    /\ finale' = [finale EXCEPT
                    !.head = @ + 1,
                    !.endedRunning = @ \/ (finale.pc = "running" /\ finale.head + 1 = finale.endAt)]
    /\ UNCHANGED <<ledgerVars, detectVars, trackVars, scanRun, locator, resolver, lockFile, instance, report, saving, gateway, store, sweep, live, canon, periodic, queue, balanceCache, processor>>

\* the monitor processes the blocks up to the head; then
\* if (endDate && await checkVotingEnded(blockNumber)) cleanup(), which is the
\* monitor's own cleanup: isRunning = false, listeners and timers removed
MonitorCatchesUp ==
    /\ finale.pc = "running"
    /\ finale.monitoring
    /\ finale.currentBlock < finale.head
    /\ finale' = [finale EXCEPT !.currentBlock = finale.head,
                                !.monitoring = ~votingOver(finale)]
    /\ UNCHANGED <<ledgerVars, detectVars, trackVars, scanRun, locator, resolver, lockFile, instance, report, saving, gateway, store, sweep, live, canon, periodic, queue, balanceCache, processor>>

\* the 12-hour timer runs schedulePeriodicChecks again
TimerFires(passThrows) ==
    /\ finale.pc = "running"
    /\ finale.timer
    /\ finale' = checkTimerVariant(finale, passThrows)
    /\ UNCHANGED <<ledgerVars, detectVars, trackVars, scanRun, locator, resolver, lockFile, instance, report, saving, gateway, store, sweep, live, canon, periodic, queue, balanceCache, processor>>

\* SIGINT or SIGTERM: cleanup()
FinaleSignal ==
    /\ finale.pc = "running"
    /\ finale' = [processEnds(finale) EXCEPT !.signalled = TRUE]
    /\ UNCHANGED <<ledgerVars, detectVars, trackVars, scanRun, locator, resolver, lockFile, instance, report, saving, gateway, store, sweep, live, canon, periodic, queue, balanceCache, processor>>

-----------------------------------------------------------------------------
(* index.js, BatchProcessor: the queue of pending votes and its batches *)

\* The three pieces of code that keep such a queue: index.js with the cleanup
\* that processes what is left (lines 441-466), index.js with the cleanup
\* that exits (lines 925-948), and class BatchProcessor.
QueueVariants == {"drain", "exit", "class"}
QueueVotes == 1..MaxVotes

QueueIdle ==
    [variant |-> "drain", isRunning |-> FALSE, pendingVotes |-> <<>>,
     processingPromise |-> FALSE, batches |-> 0, finalBatch |-> FALSE,
     immediate |-> FALSE, added |-> {}, taken |-> [v \in QueueVotes |-> 0],
     lock |-> FALSE, exited |-> FALSE]

\* a call of processBatchOfVotes / the loop over sub-batches on these votes
handed(q, vs) ==
    [q EXCEPT !.taken = [v \in QueueVotes |-> IF v \in vs THEN Min2(@[v] + 1, 2) ELSE @[v]]]

\* processPendingVotes: nothing if a batch is under way or the queue is
\* empty, else the whole queue becomes the batch
processPendingVotes(q) ==
    IF q.processingPromise \/ Len(q.pendingVotes) = 0 THEN q
    ELSE [handed(q, Elems(q.pendingVotes)) EXCEPT
             !.pendingVotes = <<>>, !.processingPromise = TRUE, !.batches = @ + 1]

\* handleNewVote / addVote
handleNewVote(q, vote) ==
    LET pushed == [q EXCEPT !.pendingVotes = Append(@, vote), !.added = @ \cup {vote}]
    IN  IF ~pushed.processingPromise THEN processPendingVotes(pushed) ELSE pushed

\* what runs when the batch of processPendingVotes ends: the .finally of
\* index.js, the end of the try and the finally of BatchProcessor
batchEnds(q) ==
    LET done == [q EXCEPT !.processingPromise = FALSE, !.batches = @ - 1]
    IN  IF q.variant = "class"
        THEN [done EXCEPT !.immediate = Len(q.pendingVotes) > 0]
        ELSE IF Len(done.pendingVotes) > 0 THEN processPendingVotes(done) ELSE done

\* cleanup of index.js
cleanupQueue(q) ==
    LET stopped == [q EXCEPT !.isRunning = FALSE]
    IN  IF q.variant = "exit"
        THEN [stopped EXCEPT !.lock = FALSE, !.exited = TRUE]
        ELSE IF Len(q.pendingVotes) > 0
             THEN [handed(stopped, Elems(q.pendingVotes)) EXCEPT !.finalBatch = TRUE]
             ELSE [stopped EXCEPT !.lock = FALSE]

OnlyQueue == UNCHANGED <<ledgerVars, detectVars, trackVars, scanRun, locator, resolver, lockFile, instance, report, saving, gateway, store, sweep, live, canon, periodic, finale, balanceCache, processor>>

\* the program starts: the lock is taken, the monitor listens
QueueStart(variant) ==
    /\ queue = QueueIdle
    /\ queue' = [QueueIdle EXCEPT !.variant = variant, !.isRunning = TRUE, !.lock = TRUE]
    /\ OnlyQueue

\* the monitor reports a vote
HandleNewVote(vote) ==
    /\ queue.isRunning
    /\ vote \notin queue.added
    /\ queue' = handleNewVote(queue, vote)
    /\ OnlyQueue

\* the batch started by processPendingVotes ends
BatchEnds ==
    /\ queue.batches > 0
    /\ ~queue.exited
    /\ queue' = batchEnds(queue)
    /\ OnlyQueue

\* BatchProcessor: the callback given to setImmediate
Immediate ==
    /\ queue.immediate
    /\ queue' = processPendingVotes([queue EXCEPT !.immediate = FALSE])
    /\ OnlyQueue

\* SIGINT, SIGTERM or the end of the voting period
QueueCleanup ==
    /\ queue.isRunning
    /\ queue.variant # "class"
    /\ queue' = cleanupQueue(queue)
    /\ OnlyQueue

\* the batch started by cleanup ends: its .finally removes the lock
FinalBatchEnds ==
    /\ queue.finalBatch
    /\ queue' = [queue EXCEPT !.finalBatch = FALSE, !.lock = FALSE]
    /\ OnlyQueue

-----------------------------------------------------------------------------
(* walletBalances.js getSeiBalance: what balanceCache holds *)

\* cache keys `${cosmosAddress}-${blockHeight}`: a wallet at two heights and
\* another wallet at one of them
BalanceKeys == {<<"sei1a", BlockOf(1) - 1>>, <<"sei1a", BlockOf(1)>>, <<"sei1b", BlockOf(1)>>}

\* what the two sources answer one lookup: they throw, or an amount
LookupCosmosAnswers == CosmosAnswers \cup {0}
LookupEvmAnswers == EvmAnswers

\* entries: balanceCache; returned: per key, the values a source has returned;
\* failedAt: the keys of the lookups every source failed; last: the last call
BalanceCacheIdle ==
    [entries |-> Empty, returned |-> [k \in BalanceKeys |-> {}], failedAt |-> {},
     last |-> [op |-> "none", key |-> <<"sei1a", BlockOf(1)>>, result |-> NoBal]]

\* balanceCache.get(cacheKey)
balanceCacheGet(entries, cacheKey) ==
    IF cacheKey \in DOMAIN entries THEN entries[cacheKey] ELSE NoCache

\* getSeiBalance mutated: whatever it returns is cached
cachedAlways(entries, cacheKey, cosmosAnswer, evmAnswer) ==
    Put(entries, cacheKey, getSeiBalance(balanceCacheGet(entries, cacheKey), cosmosAnswer, evmAnswer))

\* balanceCache after getSeiBalance: balanceCache.set(cacheKey, balance) in the
\* loop over the methods, for the first method that returns
cachedAfter(entries, cacheKey, cosmosAnswer, evmAnswer) ==
    IF balanceCacheGet(entries, cacheKey) # NoCache THEN entries
    ELSE IF Exhausted(NoCache, cosmosAnswer, evmAnswer) THEN entries
    ELSE Put(entries, cacheKey, getSeiBalance(NoCache, cosmosAnswer, evmAnswer))

\* the values the sources returned to this call: the Cosmos API if it was
\* asked and answered, else the EVM RPC if it answered
returnedBy(entries, cacheKey, cosmosAnswer, evmAnswer) ==
    IF balanceCacheGet(entries, cacheKey) # NoCache THEN {}
    ELSE IF cosmosAnswer # Fail THEN {getCosmosBalance(cosmosAnswer)}
    ELSE IF evmAnswer # Fail THEN {getEvmBalance(evmAnswer)}
    ELSE {}

OnlyBalanceCache == UNCHANGED <<ledgerVars, detectVars, trackVars, scanRun, locator, resolver, lockFile, instance, report, saving, gateway, store, sweep, live, canon, periodic, finale, queue, processor>>

\* getSeiBalance(cosmosAddress, blockHeight, ...)
GetSeiBalance(cacheKey, cosmosAnswer, evmAnswer) ==
    LET cachedBalance == balanceCacheGet(balanceCache.entries, cacheKey)
        allFailed == Exhausted(cachedBalance, cosmosAnswer, evmAnswer)
    IN  /\ balanceCache' =
              [entries |-> cachedAfter(balanceCache.entries, cacheKey, cosmosAnswer, evmAnswer),
               returned |-> [balanceCache.returned EXCEPT ![cacheKey] =
                                @ \cup returnedBy(balanceCache.entries, cacheKey,
                                                  cosmosAnswer, evmAnswer)],
               failedAt |-> IF allFailed THEN balanceCache.failedAt \cup {cacheKey}
                            ELSE balanceCache.failedAt,
               last |-> [op |-> IF cachedBalance # NoCache THEN "hit"
                                ELSE IF allFailed THEN "failed" ELSE "fetched",
                         key |-> cacheKey,
                         result |-> getSeiBalance(cachedBalance, cosmosAnswer, evmAnswer)]]
        /\ OnlyBalanceCache

\* Cache.has finds the entry older than ttlMs, or Cache.set evicts it
BalanceEntryLost(cacheKey) ==
    /\ cacheKey \in DOMAIN balanceCache.entries
    /\ balanceCache' = [balanceCache EXCEPT
          !.entries = [k \in DOMAIN @ \ {cacheKey} |-> @[k]],
          !.last = [op |-> "lost", key |-> cacheKey, result |-> NoBal]]
    /\ OnlyBalanceCache

\* clearCaches({balances: true}): balanceCache.clear()
BalanceCacheClear ==
    /\ balanceCache.entries # Empty
    /\ balanceCache' = [balanceCache EXCEPT
          !.entries = Empty,
          !.last = [op |-> "clear", key |-> @.key, result |-> NoBal]]
    /\ OnlyBalanceCache

-----------------------------------------------------------------------------
(* BatchProcessor (src/unnamed/part_000): pending changes and saveData *)

\* the balances votes are processed and updated with, and what getBalanceFunc
\* answers
FlushBalances == {NoBal, MinUnits - 5}
FlushUpdates == {MinUnits - 6}
FlushFinals == {Fail, MinUnits - 5}

\* a BatchProcessor constructed with no files on disk
ProcessorIdle ==
    [votes |-> Empty, wallets |-> Empty, pendingVoteChanges |-> {},
     pendingWalletChanges |-> {}, votesFile |-> Empty, walletsFile |-> Empty,
     last |-> [op |-> "none", ok |-> TRUE, flushed |-> 0]]

NoMarks == [votes |-> {}, wallets |-> {}]

\* processVote: the keys it adds to pendingVoteChanges and pendingWalletChanges
markedByProcessVote(vs, vote) ==
    IF vote.transactionHash \in DOMAIN vs THEN NoMarks
    ELSE [votes |-> {vote.transactionHash}, wallets |-> {toLowerCase(vote.from)}]

\* updateVoteBalances mutated: the wallet is changed but not marked
markedByUpdateVoteOnly(vs, ws, txHash) ==
    IF txHash \notin DOMAIN vs THEN NoMarks ELSE [votes |-> {txHash}, wallets |-> {}]

\* updateVoteBalances: the keys it adds
markedByUpdate(vs, ws, txHash) ==
    IF txHash \notin DOMAIN vs THEN NoMarks
    ELSE [votes |-> {txHash},
          wallets |-> IF vs[txHash].evmAddress \in DOMAIN ws THEN {vs[txHash].evmAddress}
                      ELSE {}]

\* checkFinalBalances, one wallet: the keys it adds, in the try branch and in
\* the catch branch alike
markedByFinal(vs, ws, addr) ==
    IF Len(ws[addr].votes) = 0 THEN NoMarks
    ELSE [votes |-> Elems(ws[addr].votes) \cap DOMAIN vs, wallets |-> {addr}]

\* the processor after a method changed the tables to r and marked the keys
changed(p, r, marks, op) ==
    [p EXCEPT !.votes = r.votes, !.wallets = r.wallets,
              !.pendingVoteChanges = @ \cup marks.votes,
              !.pendingWalletChanges = @ \cup marks.wallets,
              !.last = [op |-> op, ok |-> TRUE, flushed |-> 0]]

\* saveData: the wallets file is written if wallets are pending, then the votes
\* file if votes are pending; a write that throws ends the method in its catch
saveData(p, walletsThrows, votesThrows) ==
    LET wPending == Cardinality(p.pendingWalletChanges) > 0
        vPending == Cardinality(p.pendingVoteChanges) > 0
        p1 == IF wPending /\ ~walletsThrows
              THEN [p EXCEPT !.walletsFile = p.wallets, !.pendingWalletChanges = {}]
              ELSE p
        p2 == IF wPending /\ walletsThrows THEN p1
              ELSE IF vPending /\ ~votesThrows
              THEN [p1 EXCEPT !.votesFile = p.votes, !.pendingVoteChanges = {}]
              ELSE p1
    IN  [p2 EXCEPT !.last = [op |-> "saveData",
                             ok |-> ~(wPending /\ walletsThrows)
                                    /\ ~(vPending /\ votesThrows),
                             flushed |-> Cardinality(p.pendingWalletChanges)
                                         + Cardinality(p.pendingVoteChanges)]]

OnlyProcessor == UNCHANGED <<ledgerVars, detectVars, trackVars, scanRun, locator, resolver, lockFile, instance, report, saving, gateway, store, sweep, live, canon, periodic, finale, queue, balanceCache>>

\* processVote(vote)
BpProcessVote(tx, at, before) ==
    /\ processor' = changed(processor,
                            processVote(processor.votes, processor.wallets,
                                        VoteInput(tx, at, before)),
                            markedByProcessVote(processor.votes, VoteInput(tx, at, before)),
                            "processVote")
    /\ OnlyProcessor

\* updateVoteBalances(txHash, balanceAtVote, balanceBeforeVote, minSeiRequired)
BpUpdateVoteBalances(tx, at, before) ==
    /\ processor' = changed(processor,
                            updateVoteBalances(processor.votes, processor.wallets, tx, at,
                                               before, MinUnits),
                            markedByUpdate(processor.votes, processor.wallets, tx),
                            "updateVoteBalances")
    /\ OnlyProcessor

\* checkFinalBalances: one wallet of the loop; answer is what getBalanceFunc
\* returned, or Fail when it threw
BpFinalWallet(addr, answer) ==
    /\ addr \in DOMAIN processor.wallets
    /\ processor' = changed(processor,
                            IF Len(processor.wallets[addr].votes) = 0
                            THEN [votes |-> processor.votes, wallets |-> processor.wallets]
                            ELSE IF answer = Fail
                            THEN invalidateWallet(processor.votes, processor.wallets, addr)
                            ELSE finalizeWallet(processor.votes, processor.wallets, addr,
                                                answer, MinUnits),
                            markedByFinal(processor.votes, processor.wallets, addr),
                            "checkFinalBalances")
    /\ OnlyProcessor

\* saveData(), from saveIfNeeded (the 30 s timer, the end of a batch), from
\* checkFinalBalances or from cleanup
BpSaveData(walletsThrows, votesThrows) ==
    /\ processor' = saveData(processor, walletsThrows, votesThrows)
    /\ OnlyProcessor

MoreIdle ==
    /\ processor = ProcessorIdle
    /\ balanceCache = BalanceCacheIdle
    /\ queue = QueueIdle
    /\ finale = FinaleIdle
    /\ periodic = PeriodicIdle
    /\ canon = CanonIdle
    /\ live = LiveIdle
    /\ sweep = SweepIdle
    /\ store = StoreIdle
    /\ gateway = GatewayIdle
    /\ saving = SavingIdle
    /\ report = ReportIdle([changeAt |-> EndBlock + 1, above |-> TRUE])
    /\ LockIdle
    /\ ScanRunIdle
    /\ LocatorIdle
    /\ resolver = ResolverIdle([converter |-> TRUE, reverse |-> TRUE, cosmos |-> TRUE,
                                evm |-> TRUE])

-----------------------------------------------------------------------------
(* Properties of the ledger *)

IsIngest(o) == o.op \in {"recordVote", "processVote"}

\* C1: an ingestion (recordVote / BatchProcessor.processVote) of a transaction
\* hash that is already in the vote table leaves the vote table and the wallet
\* table, hence the wallet's vote list, unchanged; the vote table keeps one
\* record per hash.
C1_ReingestIsNoOp ==
    [][(IsIngest(lastOp') /\ lastOp'.tx \in DOMAIN votes)
          => (votes' = votes /\ wallets' = wallets)]_vars

\* C1, its case: the last operation was an ingestion of a hash that was already
\* recorded, for a wallet that has votes
C1_Witness ==
    /\ IsIngest(lastOp)
    /\ lastOp.dup
    /\ lastOp.tx \in DOMAIN votes
    /\ Includes(wallets[votes[lastOp.tx].evmAddress].votes, lastOp.tx)

\* C7: a newly recorded vote has pointInTimeValid (isValid) true exactly when
\* the balance at the vote block and the balance one block before, each
\* canonicalised to 6 decimals, are both at least the minimum; its finalValid
\* (finalIsValid) is null at creation.
C7_NewVoteValidity ==
    [][(IsIngest(lastOp') /\ lastOp'.tx \notin DOMAIN votes)
          => /\ lastOp'.tx \in DOMAIN votes'
             /\ votes'[lastOp'.tx].finalIsValid = Null
             /\ (votes'[lastOp'.tx].isValid = T) <=>
                    (/\ lastOp'.at # NoBal
                     /\ lastOp'.before # NoBal
                     /\ formatSeiBalance(lastOp'.at) >= MinUnits
                     /\ formatSeiBalance(lastOp'.before) >= MinUnits)]_vars

\* C7, its case: a vote was just recorded as valid from two amounts that are
\* below the minimum before canonicalisation and reach it after
C7_Witness ==
    /\ IsIngest(lastOp)
    /\ ~lastOp.dup
    /\ lastOp.tx \in DOMAIN votes
    /\ lastOp.at < MinUnits
    /\ lastOp.before < MinUnits
    /\ votes[lastOp.tx].isValid = T
    /\ votes[lastOp.tx].finalIsValid = Null

\* finalValid true implies pointInTimeValid true and a valid period-end balance
FinalImpliesPointInTime(tx) ==
    votes[tx].finalIsValid = T =>
        /\ votes[tx].isValid = T
        /\ votes[tx].evmAddress \in DOMAIN wallets
        /\ wallets[votes[tx].evmAddress].finalBalanceValid = T

\* C5: after any sequence of recordVote / processVote, updateVoteBalances and
\* checkFinalBalances, every vote whose finalValid is true has pointInTimeValid
\* true and belongs to a wallet whose finalBalanceValid is true.
C5_FinalImpliesPointInTime == \A tx \in DOMAIN votes : FinalImpliesPointInTime(tx)

\* C5 restricted to the ledger of walletBalances.js, which has no
\* updateVoteBalances
C5_OnWalletBalances == impl = "walletBalances" => C5_FinalImpliesPointInTime

\* C6: when every balance source fails for a wallet at a checkpoint, the
\* validity computed there is false: isValid of the vote (vote block, prior
\* block), finalBalanceValid of the wallet and finalIsValid of all its votes
\* (period end); never true, never null.
C6_ExhaustedIsFalse ==
    /\ \A tx \in ptEx \cap DOMAIN votes : votes[tx].isValid = F
    /\ \A w \in finEx \cap DOMAIN wallets : wallets[w].finalBalanceValid = F
    /\ \A tx \in finExVotes \cap DOMAIN votes : votes[tx].finalIsValid = F

\* C6 restricted to the ledger of walletBalances.js, where isValid is never null
C6_OnWalletBalances == impl = "walletBalances" => C6_ExhaustedIsFalse

-----------------------------------------------------------------------------
(* Properties of the detection *)

\* the four signals of a vote
Signals(tx) ==
    {i \in 1..4 :
        \/ i = 1 /\ tx.to # NoTo /\ lower(tx.to) = PROXY_ADDRESS /\ tx.value > 0
        \/ i = 2 /\ tx.to # NoTo /\ lower(tx.to) = PROXY_ADDRESS
                 /\ startsWith(tx.data, VOTE_METHOD_SIG)
        \/ i = 3 /\ IMPLEMENTATION_ADDRESS \in tx.logs
        \/ i = 4 /\ PROXY_ADDRESS \in tx.logs}

\* the examiner got past its address filter and found a receipt with status 1
Examined ==
    /\ dTx.receipt = "ok"
    /\ \/ dWho = "processBlockRange" /\ potentialVote(dTx)
       \/ dWho = "monitor" /\ relevantTx(dTx)

\* C8: a successful transaction examined by the range scanner or by the live
\* monitor is classified as a vote if and only if at least one of the four
\* signals holds.
C8_VoteIffSignal == Examined => (dEmitted <=> Signals(dTx) # {})

\* C8 restricted to the range scanner
C8_OnRangeScanner == (Examined /\ dWho = "processBlockRange") => (dEmitted <=> Signals(dTx) # {})

\* C9: a transaction whose receipt is missing or reports failure is never
\* emitted as a vote candidate (pushed to the result or passed to onVoteFound),
\* by the range scanner, the live monitor or checkBlockForVotes.
C9_NoEmitWithoutSuccess == dEmitted => dTx.receipt = "ok"

\* C9, its case: a transfer to the proxy with a failed receipt was examined by
\* the range scanner and was not emitted
C9_Witness ==
    /\ dWho = "processBlockRange"
    /\ lower(dTx.to) = PROXY_ADDRESS
    /\ dTx.value > 0
    /\ dTx.receipt = "failed"
    /\ ~dEmitted


-----------------------------------------------------------------------------
(* Properties of the tracker *)

\* C2: at every moment every vote transaction in a block at or below the
\* persisted checkpoint is already in the durable vote table.
C2_CheckpointCovered == \A tx \in Tx : BlockOf(tx) <= checkpoint => tx \in DOMAIN votes

\* C2, its consequence: once a run has caught up to currentBlock with nothing
\* failed and nothing queued, no vote up to currentBlock is missing
C2_NoLossAfterResume ==
    (pc = "monitoring" /\ ~failed /\ processing = {} /\ pendingVotes = {})
        => \A tx \in Tx : BlockOf(tx) <= currentBlock => tx \in DOMAIN votes

\* C3: the value stored in the checkpoint file never becomes smaller than a
\* value written to it before, whatever the order of chunk completions,
\* vote-batch completions and monitor callbacks.
C3_CheckpointMonotone == [][checkpoint' >= checkpoint]_vars

\* C4: the checkpoint a range scan writes never exceeds the largest h such
\* that every block of [fromBlock, h] was fetched and examined, also when a
\* batch of the scan failed.
C4_ScanCheckpointExamined == scan.saved # 0 => scan.saved <= scan.examinedTo

\* the record of a vote ingested alone, into empty tables
SingleScanRecord(tx) == processOneVote(Empty, Empty, tx, TRUE).votes[tx]

\* C10: after range scans with ingestion over overlapping ranges, one after the
\* other, every vote in the union of the ranges is in the vote table, once,
\* with the record a single scan of the union would have given it.
C10_OverlapUnion ==
    \A tx \in coveredOnce : tx \in DOMAIN votes /\ votes[tx] = SingleScanRecord(tx)

\* C10, its case: two passes are complete, a vote lies in both ranges and
\* another in only one of them
C10_Witness ==
    /\ coveredTwice # {}
    /\ coveredOnce \ coveredTwice # {}
    /\ coveredOnce \subseteq DOMAIN votes

-----------------------------------------------------------------------------
(* Properties of the concurrent scan *)

\* the votes of the chain in the blocks fromBlock..toBlock
VotesIn(fromBlock, toBlock) ==
    {tx \in Tx : /\ fromBlock <= BlockOf(tx) /\ BlockOf(tx) <= toBlock
                 /\ processBlockRangeEmits(ShapeOf(tx))}

\* C11: for a fixed chain, what scanBlockRangeForVotes returns is the set of
\* the votes in the range, whatever the number of batches in flight and the
\* order in which they complete, and it holds each transaction hash once.
C11_ScanSetIndependent ==
    scanRun.pc = "returned" =>
        /\ Elems(scanRun.votes) = VotesIn(scanRun.from, scanRun.to)
        /\ Len(scanRun.votes) = Cardinality(Elems(scanRun.votes))

\* C11, its case: a call has returned two votes from two batches of which the
\* later one completed first
C11_Witness ==
    /\ scanRun.pc = "returned"
    /\ Len(scanRun.votes) >= 2
    /\ \E i, j \in 1..Len(scanRun.order) : i < j /\ scanRun.order[i] > scanRun.order[j]

-----------------------------------------------------------------------------
(* Properties of the block-time locator *)

\* C12: for a target time within the time range of the chain, the height h
\* findStartBlock returns has timestamp(h) >= target and, if h > 0,
\* timestamp(h - 1) < target: the first block at or after the target.
C12_FirstAtOrAfter ==
    locator.pc = "returned" =>
        /\ timestamp(locator.interval, locator.result) >= locator.target
        /\ locator.result > 0 =>
              timestamp(locator.interval, locator.result - 1) < locator.target

\* C12 where no block lies within a second of the target and the refinement
\* decides
C12_WhenRefined ==
    (locator.pc = "returned" /\ locator.closestDiff >= CLOSE_ENOUGH_MS) =>
        locator.result = firstAtOrAfter(locator.interval, locator.target)

\* C21: the search of the locator finishes and, instead of raising an error,
\* returns the closest height it found; here for every target that is not
\* later than the head block.
C21_NeverRaises ==
    locator.target <= timestamp(locator.interval, ChainHead) => locator.pc # "failed"

\* C22: when the target time is later than the timestamp of the head block, the
\* locator returns the head height immediately, without searching.
C22_FutureGivesHead ==
    (locator.pc # "idle" /\ locator.target > timestamp(locator.interval, ChainHead)) =>
        locator.pc = "returned" /\ locator.result = ChainHead

-----------------------------------------------------------------------------
(* Properties of the caches *)

\* C13: whenever caches are cleared and entries expire or are evicted, the
\* vote records and wallet records computed are those computed with caches
\* that never lose an entry.
C13_CacheTransparent ==
    resolver.pc = "idle" => (votes = resolver.warmVotes /\ wallets = resolver.warmWallets)

\* C13 as long as the wallet's entry of reverseAddressCache was never lost
C13_UnlessReverseLost ==
    (resolver.pc = "idle" /\ ~resolver.lostReverse) =>
        (votes = resolver.warmVotes /\ wallets = resolver.warmWallets)

\* C15: a vote whose voter address cannot be translated is still inserted into
\* the vote table; every vote processBatchOfVotes has handled is in the table.
C15_HandledVoteRecorded == \A tx \in evDone : tx \in DOMAIN votes

\* C16: once a vote's finalIsValid is non-null, no later operation changes any
\* field of that vote record.
C16_FinalisedVoteFrozen ==
    [][\A tx \in DOMAIN votes :
          votes[tx].finalIsValid # Null => tx \in DOMAIN votes' /\ votes'[tx] = votes[tx]]_vars

\* C16, for the final verdict alone: a second end-of-period pass does not change
\* a finalIsValid that is non-null
C16_FinalVerdictFrozen ==
    [][\A tx \in DOMAIN votes :
          votes[tx].finalIsValid # Null =>
              tx \in DOMAIN votes' /\ votes'[tx].finalIsValid = votes[tx].finalIsValid]_vars

\* C16, for the wallets: once finalBalanceValid is non-null the final fields of
\* the wallet record do not change
C16_FinalisedWalletFrozen ==
    [][\A a \in DOMAIN wallets :
          wallets[a].finalBalanceValid # Null =>
              /\ a \in DOMAIN wallets'
              /\ wallets'[a].finalBalance = wallets[a].finalBalance
              /\ wallets'[a].finalBalanceValid = wallets[a].finalBalanceValid]_vars

\* a step in which checkFinalBalances writes the vote table: the save of
\* walletBalances.js, one wallet of the BatchProcessor
PassWrites ==
    \/ impl = "walletBalances" /\ cfPc = "running" /\ cfPc' = "idle"
    \/ impl = "batchProcessor" /\ cfPc = "running" /\ cfTodo' # cfTodo

\* the wallets whose verdict that step writes
PassVisited == IF impl = "walletBalances" THEN DOMAIN wallets' ELSE cfTodo \ cfTodo'

\* C17: the end-of-period pass never changes isValid, balanceAtVote or
\* balanceBeforeVote of a vote, and a vote with isValid true whose wallet's
\* period-end balance is below the minimum ends with finalIsValid false.
C17_PassKeepsHistory ==
    [][PassWrites =>
          /\ \A tx \in DOMAIN votes \cap DOMAIN votes' :
                /\ votes'[tx].isValid = votes[tx].isValid
                /\ votes'[tx].balanceAtVote = votes[tx].balanceAtVote
                /\ votes'[tx].balanceBeforeVote = votes[tx].balanceBeforeVote
          /\ \A a \in PassVisited \cap DOMAIN wallets' : \A tx \in DOMAIN votes' :
                (/\ Includes(wallets'[a].votes, tx)
                 /\ votes'[tx].isValid = T
                 /\ wallets'[a].finalBalance < MinUnits)
                    => votes'[tx].finalIsValid = F /\ wallets'[a].finalBalanceValid = F]_vars

\* C17 witness: a pass has just written a vote valid at vote time and not valid
\* in the end, its wallet below the minimum at period end
C17_Witness ==
    /\ lastOp.op \in {"checkFinalSave", "checkFinalWallet"}
    /\ \E tx \in DOMAIN votes :
          /\ votes[tx].isValid = T
          /\ votes[tx].finalIsValid = F
          /\ votes[tx].evmAddress \in DOMAIN wallets
          /\ wallets[votes[tx].evmAddress].finalBalance < MinUnits

-----------------------------------------------------------------------------
(* Properties of the lock *)

\* C14: an instance that finds the lock held refuses to start and leaves the
\* lock in place.
C14_RefusalKeepsLock ==
    [][\A i \in Instances :
          (instance[i] = "refused" /\ instance'[i] # "refused") => lockFile' = lockFile]_vars

\* C14, its conclusion: at most one instance at a time is past the lock check
\* and writing the tables
C14_AtMostOneWriter == Cardinality({i \in Instances : instance[i] = "running"}) <= 1

-----------------------------------------------------------------------------
(* Properties of the final report *)

\* C18: the height at which the period-end balance is resolved is the block at
\* the end of the voting period, however long after it the final pass is run.
C18_FinalHeightIsPeriodEnd ==
    report.pc = "done" => report.finalBlockHeight = EndBlock

\* C18, its consequence: the verdict of the pass is the one the balance at the
\* end of the period gives
C18_VerdictOfPeriodEnd ==
    report.pc = "done" =>
        report.finalBalanceValid =
            Bool3(formatSeiBalance(balanceAtHeight(report.profile, EndBlock)) >= MinUnits)

\* C18, what does hold: the height is the head of the chain when the pass starts
C18_FinalHeightIsHead ==
    report.pc = "done" => report.finalBlockHeight = report.head

-----------------------------------------------------------------------------
(* Properties of the two files *)

\* C19: after ingestions and after a crash between the two table writes, every
\* hash in a wallet's vote list exists in the vote table.
C19_ListedVotesExist ==
    saving.pc = "idle" =>
        \A a \in DOMAIN wallets : \A i \in 1..Len(wallets[a].votes) :
            wallets[a].votes[i] \in DOMAIN votes

\* C19, the rest of it: a wallet's vote list contains no duplicates
C19_NoDuplicates ==
    \A a \in DOMAIN wallets : \A i, j \in 1..Len(wallets[a].votes) :
        wallets[a].votes[i] = wallets[a].votes[j] => i = j

\* C19, the rest of it: no wallet that was once created is removed
C19_WalletsKept == [][DOMAIN wallets \subseteq DOMAIN wallets']_vars

-----------------------------------------------------------------------------
(* Properties of retry and fallback *)

\* the contacts of the call so far that went to the endpoint e
Contacts(e) == {i \in 1..Len(gateway.log) : gateway.log[i][1] = e}

\* C23: a call contacts the secondary endpoint only after all retry attempts
\* against the primary endpoint have failed, and then exactly once.
C23_FallbackAfterRetries ==
    /\ Cardinality(Contacts("fallback")) <= 1
    /\ \A i \in Contacts("fallback") :
          Cardinality({j \in Contacts("primary") : j < i}) = maxRetriesOf(gateway.op) + 1

\* C23, what does hold: every contact of the fallback endpoint follows at once
\* a failed contact of the primary endpoint
C23_FallbackAfterPrimary ==
    \A i \in Contacts("fallback") :
        i > 1 /\ gateway.log[i - 1][1] = "primary" /\ gateway.log[i - 1][2] # "ok"

\* C24: a retried call configured for 3 attempts invokes the operation at most
\* 3 times in total before it reports failure.
C24_AtMostThree ==
    maxRetriesOf(gateway.op) = RETRY_COUNT => gateway.invocations <= RETRY_COUNT

\* C24, what does hold: at most one invocation more than the count, and the
\* result is that of the first contact that succeeded
C24_FirstSuccess ==
    /\ gateway.invocations <= maxRetriesOf(gateway.op) + 1
    /\ gateway.pc = "returned" <=>
          (Len(gateway.log) > 0 /\ gateway.log[Len(gateway.log)][2] = "ok")
    /\ \A i \in 1..(Len(gateway.log) - 1) : gateway.log[i][2] # "ok"

-----------------------------------------------------------------------------
(* Properties of the Cache class *)

C26_EvictsOldestFifth ==
    [][(store'.last.op = "set" /\ store'.now = store.now /\ store' # store) =>
          LET E == store'.last.evicted
              key == store'.last.key
          IN  /\ DOMAIN store'.ts = (DOMAIN store.ts \ E) \cup {key}
              /\ store'.ts[key] = store.now
              /\ \A k \in DOMAIN store'.ts \ {key} : store'.ts[k] = store.ts[k]
              /\ IF Len(store.order) >= CacheMaxSize
                 THEN /\ 10 * Cardinality(E) >= 2 * CacheMaxSize
                      /\ 10 * (Cardinality(E) - 1) < 2 * CacheMaxSize
                      /\ E \subseteq DOMAIN store.ts
                      /\ \A e \in E : \A r \in DOMAIN store.ts \ E : store.ts[e] <= store.ts[r]
                 ELSE E = {}]_vars

\* C26 witness: a put has just evicted from a full cache whose entries were
\* inserted at different times
C26_Witness ==
    /\ store.last.op = "set"
    /\ store.last.evicted # {}
    /\ \E a, b \in DOMAIN store.ts : store.ts[a] # store.ts[b]

-----------------------------------------------------------------------------
(* Properties of a scan whose fetches fail *)

\* the batch of the scan that holds a block
batchOf(block) == StartBlock + ((block - StartBlock) \div BATCH_SIZE) * BATCH_SIZE

\* a transaction of the scanned range that nothing fails on
Unharmed(tx) ==
    /\ BlockOf(tx) <= sweep.to
    /\ BlockOf(tx) \notin sweep.badBlocks
    /\ tx \notin sweep.badTx

\* C27: a failure on one block or transaction does not stop the scan: every
\* other item of the same batch and every later batch is still processed, so
\* each vote that nothing fails on is among the votes the scan returns.
C27_OtherItemsProcessed ==
    sweep.pc = "returned" => \A tx \in Tx : Unharmed(tx) => Includes(sweep.votes, tx)

\* C27, the part that holds: the votes of every batch in which all blocks can
\* be fetched are returned, whatever fails in the other batches and on the
\* other transactions
C27_OtherBatchesProcessed ==
    sweep.pc = "returned" =>
        \A tx \in Tx :
            (Unharmed(tx) /\ (batchOf(BlockOf(tx))..batchEnd(batchOf(BlockOf(tx)), sweep.to))
                                 \cap sweep.badBlocks = {})
                => Includes(sweep.votes, tx)

-----------------------------------------------------------------------------
(* Properties of the live monitor *)

C32_ScannedOnce ==
    \A b \in 1..MaxLatest : b <= live.currentBlock => live.scans[b] = 1

\* C32, the part that holds: no block up to the current block is left out by
\* the ranges of the handlers that ended
C32_NoBlockLeftOut ==
    \A b \in 1..MaxLatest : b <= live.currentBlock => live.scans[b] >= 1

\* C33: the monitor's current block, which is the height passed to
\* onBlockProcessed, never decreases.
C33_CurrentBlockGrows ==
    [][live'.currentBlock >= live.currentBlock]_vars

\* C36: a running monitor whose WebSocket is gone for good (closed, and no
\* reconnect pending or under way) has polling started
C36_NeverUnmonitored == (live.isRunning /\ live.conn = "down") => live.pollInterval

\* C36, why the state above is not a passing one: a monitor whose WebSocket is
\* gone for good and that does not poll stays so
C36_DownStaysDown ==
    [][(live.conn = "down" /\ ~live.pollInterval) =>
           (live'.conn = "down" /\ ~live'.pollInterval /\ ~live'.listening)]_vars

\* C36, what holds: when the first connection fails, or the connection closes
\* with the reconnect attempts used up, polling is started
C36_PollingAtStartAndAtLimit ==
    (live.isRunning /\ live.conn = "down" /\
        (live.origin = "start" \/ live.reconnectAttempts > MAX_RECONNECT_ATTEMPTS))
    => live.pollInterval

-----------------------------------------------------------------------------
(* Properties of formatSeiBalance *)

\* C29: canonicalising a balance to 6 fraction digits is idempotent:
\* formatSeiBalance(formatSeiBalance(x)) = formatSeiBalance(x).
C29_Idempotent == canon.twice # NoBal => canon.twice = canon.once

\* C29 witness: an amount that the first application changed has been
\* canonicalised twice
C29_Witness ==
    /\ canon.twice # NoBal
    /\ canon.once # canon.amount

-----------------------------------------------------------------------------
(* Properties of the periodic checks *)

\* C30: while the voting period is open and the process keeps running, every
\* scheduled check performs a tracking pass, which scans from the last
\* checkpoint.
C30_EveryCheckTracks ==
    (periodic.checks > 0 /\ periodic.last.open /\ periodic.last.running)
        => periodic.last.performed

\* C30, the part that holds: the first check of a process that finds no lock
\* file performs the pass, and so does every check that follows a pass that
\* threw (its catch removed the lock)
C30_FirstCheckTracks ==
    (periodic.checks = 1 /\ periodic.last.open /\ periodic.last.running)
        => periodic.last.performed /\ periodic.last.fromBlock = StartBlock

-----------------------------------------------------------------------------
(* Properties of the end of the voting period *)

\* C31: if the voting period ends while the program is running, the final
\* balance check and the final report are eventually produced (unless the
\* program is stopped by a signal).
C31_ReportEventually ==
    finale.endedRunning ~> (finale.reported \/ finale.signalled)

\* C31, the part that holds: a program started after the end of the period
\* produces the final report in its first run
C31_ReportAtStart ==
    (finale.pc # "off" /\ ~finale.endedRunning /\ ~finale.signalled /\ finale.lock)
        => (finale.reported <=> votingOver(finale) /\ finale.pc = "exited")

-----------------------------------------------------------------------------
(* Properties of the queue of pending votes *)

\* C34: at most one batch of pending votes is being processed at any time
C34_OneBatch == queue.batches + (IF queue.finalBatch THEN 1 ELSE 0) <= 1

\* C34, what holds: until cleanup is called, at most one batch is being
\* processed
C34_OneBatchUntilCleanup == queue.isRunning => queue.batches <= 1 /\ ~queue.finalBatch

\* C35: no vote is handed to vote processing twice, and once the lock is
\* released no vote is left in the queue
C35_OnceAndNoneLeft ==
    /\ \A v \in QueueVotes : queue.taken[v] <= 1
    /\ (queue.variant # "class" /\ ~queue.isRunning /\ ~queue.lock) => Len(queue.pendingVotes) = 0

\* C35, what holds: until cleanup is called, every vote in the queue has a
\* batch or a setImmediate callback under way that will take it, and no vote is
\* taken twice
C35_QueueServedUntilCleanup ==
    queue.isRunning =>
        /\ Len(queue.pendingVotes) > 0 => (queue.processingPromise \/ queue.immediate)
        /\ \A v \in QueueVotes : queue.taken[v] = (IF v \in queue.added \ Elems(queue.pendingVotes) THEN 1 ELSE 0)

-----------------------------------------------------------------------------
(* Properties of balanceCache *)

\* C37: every entry of the balance cache is a value a source returned for that
\* key, and after a lookup that every source failed the key has no entry (the 0
\* it answered is not cached)
C37_OnlySourceValuesCached ==
    /\ \A k \in DOMAIN balanceCache.entries : balanceCache.entries[k] \in balanceCache.returned[k]
    /\ balanceCache.last.op = "failed" =>
          /\ balanceCache.last.result = 0
          /\ balanceCache.last.key \notin DOMAIN balanceCache.entries

\* C37, its case: a key whose lookup failed once holds the value a later
\* lookup fetched from a source
C37_Witness ==
    /\ balanceCache.last.op = "fetched"
    /\ balanceCache.last.key \in balanceCache.failedAt
    /\ balanceCache.last.key \in DOMAIN balanceCache.entries
    /\ balanceCache.entries[balanceCache.last.key] = balanceCache.last.result

-----------------------------------------------------------------------------
(* Properties of a cache whose size is limited *)

\* C38: a cache never holds more entries than its maximum entry count, and the
\* keys with a value are the keys with an insertion time
C38_WithinMaxAndSameKeys ==
    /\ Cardinality(store.cache) <= store.maxSize
    /\ store.cache = DOMAIN store.ts
    /\ store.cache = Elems(store.order)

\* C38, its case: a put into a cache that limitSize has made smaller and that
\* is full evicts an entry
C38_Witness ==
    /\ store.last.op = "set"
    /\ store.last.evicted # {}
    /\ store.limit # 0 /\ store.maxSize = store.limit
    /\ Cardinality(store.cache) = store.maxSize

\* C40: after limitSize(n) the cache holds at most n entries, whatever is put
\* into it later
C40_LimitHolds == store.limit # 0 => Cardinality(store.cache) <= store.limit

\* C40, what holds: limitSize(n) itself leaves at most n entries, and when it
\* had to remove entries, later puts stay within n
C40_LimitHoldsWhenItRemoved ==
    /\ (store.last.op = "limitSize" => Cardinality(store.cache) <= store.limit)
    /\ (store.limit # 0 /\ store.maxSize = store.limit => Cardinality(store.cache) <= store.limit)

-----------------------------------------------------------------------------
(* Properties of the pending changes of BatchProcessor *)

\* C39: a vote or wallet in memory that differs from its copy in the file is in
\* the pending set, and after a saveData that did not throw both pending sets
\* are empty and the files hold the tables in memory
C39_ChangesArePending ==
    /\ \A tx \in DOMAIN processor.votes :
          (tx \notin DOMAIN processor.votesFile \/ processor.votes[tx] # processor.votesFile[tx])
          => tx \in processor.pendingVoteChanges
    /\ \A addr \in DOMAIN processor.wallets :
          (addr \notin DOMAIN processor.walletsFile
             \/ processor.wallets[addr] # processor.walletsFile[addr])
          => addr \in processor.pendingWalletChanges
    /\ (processor.last.op = "saveData" /\ processor.last.ok) =>
          /\ processor.pendingVoteChanges = {} /\ processor.pendingWalletChanges = {}
          /\ processor.votesFile = processor.votes
          /\ processor.walletsFile = processor.wallets

\* C39, its case: a saveData that had pending changes of both kinds to write,
\* among them a vote that the final check has judged
C39_Witness ==
    /\ processor.last.op = "saveData" /\ processor.last.ok /\ processor.last.flushed >= 2
    /\ \E tx \in DOMAIN processor.votesFile : processor.votesFile[tx].finalIsValid # Null

-----------------------------------------------------------------------------
(* Specifications *)

LedgerInit ==
    /\ impl \in {"walletBalances", "batchProcessor"}
    /\ votes = Empty
    /\ wallets = Empty
    /\ cfPc = "idle"
    /\ cfVotes = Empty
    /\ cfWallets = Empty
    /\ cfTodo = {}
    /\ ptEx = {}
    /\ finEx = {}
    /\ finExVotes = {}
    /\ cfEx = Empty
    /\ lastOp = [op |-> "none", tx |-> 0, dup |-> FALSE, at |-> NoBal, before |-> NoBal]
    /\ DetectIdle
    /\ TrackIdle
    /\ MoreIdle

LedgerNext ==
    \/ \E tx \in Tx, atC \in CosmosAnswers, atE \in EvmAnswers,
          beC \in CosmosAnswers, beE \in EvmAnswers : IngestVote(tx, atC, atE, beC, beE)
    \/ CheckFinalLoad
    \/ \E addr \in cfTodo, cAns \in CosmosAnswers, eAns \in EvmAnswers :
          CheckFinalWallet(addr, cAns, eAns)
    \/ CheckFinalSave
    \/ \E tx \in Tx, at \in BalanceInputs, before \in BalanceInputs :
          ProcessVote(tx, at, before)
    \/ \E tx \in Tx, at \in BalanceInputs \ {NoBal}, before \in BalanceInputs \ {NoBal} :
          UpdateVoteBalances(tx, at, before)
    \/ BpCheckFinalStart
    \/ \E addr \in cfTodo, answer \in BpFinalAnswers : BpCheckFinalWallet(addr, answer)
    \/ BpCheckFinalEnd

SpecLedger == LedgerInit /\ [][LedgerNext]_vars

LedgerIdle ==
    /\ impl = "walletBalances"
    /\ votes = Empty
    /\ wallets = Empty
    /\ cfPc = "idle"
    /\ cfVotes = Empty
    /\ cfWallets = Empty
    /\ cfTodo = {}
    /\ ptEx = {}
    /\ finEx = {}
    /\ finExVotes = {}
    /\ cfEx = Empty
    /\ lastOp = [op |-> "none", tx |-> 0, dup |-> FALSE, at |-> NoBal, before |-> NoBal]

DetectInit == LedgerIdle /\ DetectIdle /\ TrackIdle /\ MoreIdle

DetectNext ==
    \/ \E tx \in TxShapes : ProcessBlockRangeTx(tx)
    \/ \E tx \in TxShapes : MonitorTx(tx)
    \/ \E tx \in TxShapes : CheckBlockForVotesTx(tx)

SpecDetect == DetectInit /\ [][DetectNext]_vars

TrackInit == LedgerIdle /\ DetectIdle /\ TrackIdle /\ MoreIdle

TrackNext ==
    \/ TrackStart
    \/ \E failing \in SUBSET groupStarts(scan.next, scan.to) : ScanGroup(failing)
    \/ \E tx \in Tx, translated \in BOOLEAN : ProcessBatchVote(tx, translated)
    \/ IngestBatchDone
    \/ HistoricalDone
    \/ \E b \in {head}, failing \in SUBSET batchStarts(currentBlock + 1, head) :
          MonitorBlock(b, failing)
    \/ \E tx \in Tx, translated \in BOOLEAN : ProcessPendingVote(tx, translated)
    \/ Cleanup
    \/ TimePasses
    \/ \E h \in HeadValues : ChainGrows(h)

SpecTrack == TrackInit /\ [][TrackNext]_vars

ScanInit == LedgerIdle /\ DetectIdle /\ TrackIdle /\ MoreIdle

ScanNext ==
    \/ \E fromBlock \in ScanFroms, toBlock \in HeadValues, conc \in ConcurrencyDegrees :
          ScanCall(fromBlock, toBlock, conc)
    \/ \E b \in scanRun.pending : BatchCompletes(b)
    \/ GroupResolves
    \/ ScanTaken

SpecScan == ScanInit /\ [][ScanNext]_vars

LocateInit == LedgerIdle /\ DetectIdle /\ TrackIdle /\ MoreIdle

LocateNext ==
    \/ \E interval \in BlockIntervals, off \in TargetOffsets :
          FindStartBlock(interval,
                         timestamp(interval, ChainHead - TargetDepth(interval)) - off)
    \/ SearchStep
    \/ SearchEnd
    \/ MoveForward
    \/ MoveBackward
    \/ LocatorTaken

SpecLocate == LocateInit /\ [][LocateNext]_vars

LocateNearInit == LedgerIdle /\ DetectIdle /\ TrackIdle /\ MoreIdle

LocateNearNext ==
    \/ \E interval \in BlockIntervals, off \in TargetOffsets :
          \E depth \in NearDepths \cup {TargetDepth(interval)} :
              FindStartBlock(interval, timestamp(interval, ChainHead - depth) - off)
    \/ SearchStep
    \/ SearchEnd
    \/ MoveForward
    \/ MoveBackward
    \/ LocatorTaken

SpecLocateNear == LocateNearInit /\ [][LocateNearNext]_vars

CacheInit ==
    /\ LedgerIdle /\ DetectIdle /\ TrackIdle /\ ScanRunIdle /\ LocatorIdle /\ LockIdle /\ saving = SavingIdle /\ gateway = GatewayIdle /\ store = StoreIdle /\ sweep = SweepIdle /\ live = LiveIdle /\ canon = CanonIdle /\ periodic = PeriodicIdle /\ finale = FinaleIdle /\ queue = QueueIdle /\ balanceCache = BalanceCacheIdle /\ processor = ProcessorIdle
    /\ report = ReportIdle([changeAt |-> EndBlock + 1, above |-> TRUE])
    /\ \E up \in Upstreams : resolver = ResolverIdle(up)

CacheNext ==
    \/ \E tx \in Tx : ConvertAddress(tx)
    \/ BalanceAtVote
    \/ BalanceBeforeVote
    \/ RecordResolved
    \/ \E which \in {"address", "reverse", "balance"},
          blockHeight \in DOMAIN resolver.caches.balance \cup {0} :
          EntryLost(which, blockHeight)
    \/ ClearCaches(TRUE, TRUE, TRUE)
    \/ ClearCaches(FALSE, FALSE, TRUE)

SpecCache == CacheInit /\ [][CacheNext]_vars

LockInit == LedgerIdle /\ DetectIdle /\ TrackIdle /\ MoreIdle

LockNext ==
    \/ \E i \in Instances : CheckLock(i)
    \/ \E i \in Instances : CreateLock(i)
    \/ \E i \in Instances : RefusedExit(i)
    \/ \E i \in Instances : RunFails(i)
    \/ \E i \in Instances : FailedExit(i)
    \/ \E i \in Instances : Shutdown(i)

SpecLock == LockInit /\ [][LockNext]_vars

ReportInit ==
    /\ LedgerIdle /\ DetectIdle /\ TrackIdle /\ ScanRunIdle /\ LocatorIdle /\ LockIdle /\ saving = SavingIdle /\ gateway = GatewayIdle /\ store = StoreIdle /\ sweep = SweepIdle /\ live = LiveIdle /\ canon = CanonIdle /\ periodic = PeriodicIdle /\ finale = FinaleIdle /\ queue = QueueIdle /\ balanceCache = BalanceCacheIdle /\ processor = ProcessorIdle
    /\ resolver = ResolverIdle([converter |-> TRUE, reverse |-> TRUE, cosmos |-> TRUE, evm |-> TRUE])
    /\ \E profile \in BalanceProfiles : report = ReportIdle(profile)

ReportNext ==
    \/ BlockProduced
    \/ GenerateFinalReport
    \/ ReportTaken

SpecReport == ReportInit /\ [][ReportNext]_vars

SaveInit == LedgerIdle /\ DetectIdle /\ TrackIdle /\ MoreIdle

SaveNext ==
    \/ \E tx \in Tx, at \in SaveBalances, before \in SaveBalances : RecordVoteBuild(tx, at, before)
    \/ SaveWalletData
    \/ SaveVotingData
    \/ Crash

SpecSave == SaveInit /\ [][SaveNext]_vars

GatewayInit == LedgerIdle /\ DetectIdle /\ TrackIdle /\ MoreIdle

GatewayNext ==
    \/ \E op \in GatewayOps : GatewayCall(op)
    \/ \E outcome \in Outcomes : ContactPrimary(outcome)
    \/ \E outcome \in Outcomes : ContactFallback(outcome)
    \/ GatewayTaken

SpecGateway == GatewayInit /\ [][GatewayNext]_vars

StoreInit == LedgerIdle /\ DetectIdle /\ TrackIdle /\ MoreIdle

StoreNext ==
    \/ \E key \in CacheKeys : CacheGet(key)
    \/ \E key \in CacheKeys : CacheSet(key)
    \/ ClockTick

SpecStore == StoreInit /\ [][StoreNext]_vars

SweepInit == LedgerIdle /\ DetectIdle /\ TrackIdle /\ MoreIdle

SweepNext ==
    \/ \E toBlock \in SweepTos, badBlocks \in SUBSET FailingBlocks, badTx \in SUBSET Tx :
          SweepCall(toBlock, badBlocks, badTx)
    \/ \E b \in DOMAIN sweep.at : SubBatchRuns(b)
    \/ \E b \in DOMAIN sweep.at : BatchFails(b)
    \/ SweepGroupResolves
    \/ SweepTaken

SpecSweep == SweepInit /\ [][SweepNext]_vars

LiveInit == LedgerIdle /\ DetectIdle /\ TrackIdle /\ MoreIdle

LiveNext ==
    \/ NewBlock
    \/ ConnectSucceeds
    \/ ConnectFails
    \/ \E blockNumber \in 1..MaxLatest : BlockEvent(blockNumber)
    \/ PollTick
    \/ \E blockNumber \in 1..MaxLatest : VoteFound(blockNumber)
    \/ \E blockNumber \in 1..MaxLatest : HandlerEnds(blockNumber)
    \/ \E blockNumber \in 1..MaxLatest : HandlerFails(blockNumber)
    \/ ConnectionCloses
    \/ ReconnectTimer
    \/ Stop

SpecLive == LiveInit /\ [][LiveNext]_vars

CanonInit ==
    /\ LedgerIdle /\ DetectIdle /\ TrackIdle /\ ScanRunIdle /\ LocatorIdle /\ LockIdle /\ periodic = PeriodicIdle /\ finale = FinaleIdle /\ queue = QueueIdle /\ balanceCache = BalanceCacheIdle /\ processor = ProcessorIdle
    /\ saving = SavingIdle /\ gateway = GatewayIdle /\ store = StoreIdle /\ sweep = SweepIdle
    /\ live = LiveIdle
    /\ report = ReportIdle([changeAt |-> EndBlock + 1, above |-> TRUE])
    /\ resolver = ResolverIdle([converter |-> TRUE, reverse |-> TRUE, cosmos |-> TRUE,
                                evm |-> TRUE])
    /\ canon \in {[amount |-> a, once |-> NoBal, twice |-> NoBal] : a \in CanonAmounts}

CanonNext ==
    \/ \E below \in BOOLEAN : FormatOnce(below)
    \/ \E below \in BOOLEAN : FormatTwice(below)

SpecCanon == CanonInit /\ [][CanonNext]_vars

PeriodicInit == LedgerIdle /\ DetectIdle /\ TrackIdle /\ MoreIdle

PeriodicNext ==
    \/ \E outcome \in PassOutcomes : ScheduledCheck(outcome)
    \/ PeriodicBlock
    \/ VotingEnds
    \/ Signal

SpecPeriodic == PeriodicInit /\ [][PeriodicNext]_vars

FinaleInit == LedgerIdle /\ DetectIdle /\ TrackIdle /\ MoreIdle

FinaleNext ==
    \/ \E variant \in Variants, endAt \in EndHeights, passThrows \in BOOLEAN :
          FinaleStart(variant, endAt, passThrows)
    \/ FinaleBlock
    \/ MonitorCatchesUp
    \/ \E passThrows \in BOOLEAN : TimerFires(passThrows)
    \/ FinaleSignal

\* the chain goes on, the monitor handles the blocks it is told of, and the
\* timer fires
SpecFinale ==
    /\ FinaleInit /\ [][FinaleNext]_vars
    /\ WF_vars(FinaleBlock) /\ WF_vars(MonitorCatchesUp)
    /\ WF_vars(\E passThrows \in BOOLEAN : TimerFires(passThrows))

QueueInit == LedgerIdle /\ DetectIdle /\ TrackIdle /\ MoreIdle

QueueNext ==
    \/ \E variant \in QueueVariants : QueueStart(variant)
    \/ \E vote \in QueueVotes : HandleNewVote(vote)
    \/ BatchEnds
    \/ Immediate
    \/ QueueCleanup
    \/ FinalBatchEnds

SpecQueue == QueueInit /\ [][QueueNext]_vars

BalanceCacheInit == LedgerIdle /\ DetectIdle /\ TrackIdle /\ MoreIdle

BalanceCacheNext ==
    \/ \E cacheKey \in BalanceKeys, cosmosAnswer \in LookupCosmosAnswers,
          evmAnswer \in LookupEvmAnswers : GetSeiBalance(cacheKey, cosmosAnswer, evmAnswer)
    \/ \E cacheKey \in BalanceKeys : BalanceEntryLost(cacheKey)
    \/ BalanceCacheClear

SpecBalanceCache == BalanceCacheInit /\ [][BalanceCacheNext]_vars

\* new Cache(name, maxSize) with a maxSize of the model's scale
LimitInit ==
    /\ LedgerIdle /\ DetectIdle /\ TrackIdle /\ ScanRunIdle /\ LocatorIdle /\ LockIdle /\ periodic = PeriodicIdle /\ finale = FinaleIdle /\ queue = QueueIdle /\ balanceCache = BalanceCacheIdle /\ processor = ProcessorIdle
    /\ saving = SavingIdle /\ gateway = GatewayIdle /\ sweep = SweepIdle /\ canon = CanonIdle
    /\ live = LiveIdle
    /\ report = ReportIdle([changeAt |-> EndBlock + 1, above |-> TRUE])
    /\ resolver = ResolverIdle([converter |-> TRUE, reverse |-> TRUE, cosmos |-> TRUE,
                                evm |-> TRUE])
    /\ store \in {[StoreIdle EXCEPT !.maxSize = maxSize] : maxSize \in 2..MaxLimitKeys}

LimitNext ==
    \/ \E key \in 1..MaxLimitKeys + 1 : CacheGet(key)
    \/ \E key \in 1..MaxLimitKeys + 1 : CacheSet(key)
    \/ CacheClear
    \/ \E newMax \in 1..MaxLimitKeys : LimitSize(newMax)
    \/ ClockTick

SpecLimit == LimitInit /\ [][LimitNext]_vars

ProcessorInit == LedgerIdle /\ DetectIdle /\ TrackIdle /\ MoreIdle

ProcessorNext ==
    \/ \E tx \in Tx, at \in FlushBalances, before \in FlushBalances :
          BpProcessVote(tx, at, before)
    \/ \E tx \in Tx, at \in FlushUpdates, before \in FlushUpdates :
          BpUpdateVoteBalances(tx, at, before)
    \/ \E addr \in {toLowerCase(FromOf(tx)) : tx \in Tx}, answer \in FlushFinals :
          BpFinalWallet(addr, answer)
    \/ \E walletsThrows \in BOOLEAN, votesThrows \in BOOLEAN :
          BpSaveData(walletsThrows, votesThrows)

SpecProcessor == ProcessorInit /\ [][ProcessorNext]_vars

====
